---- MODULE Spec2Model ----
(***************************************************************************)
(* A model of the asm_interpreter virtual machine (src/src/interpreter.rs, *)
(* src/src/value.rs, src/src/ast.rs).  Text is modelled as a sequence of   *)
(* one-character strings so that prefix stripping, case folding and the    *)
(* numeric-literal conversion are computed the way the code computes them. *)
(***************************************************************************)
EXTENDS Integers, Sequences, FiniteSets, TLC

(***************************************************************************)
(* Bounds of the model (not program constants).                            *)
(***************************************************************************)
\* Step is disabled when it would leave more than MaxStack values on the value stack.
MaxStack == 3
\* Step is disabled when it would leave more than MaxCalls entries on the call stack.
MaxCalls == 3
\* Step is disabled when it would store a Number whose magnitude exceeds MaxNum.
MaxNum == 400
\* Step is disabled when it would store a Text longer than MaxStr characters.
MaxStr == 14
\* run() takes no further step once it has taken MaxRunSteps steps.
MaxRunSteps == 24
\* parse() is called at most MaxParses times on one interpreter.
MaxParses == 3

(***************************************************************************)
(* Program constants.                                                      *)
(***************************************************************************)
RAM_SLOTS == 256

ACC == <<"a">>

REGISTERS ==
  { <<"a">>, <<"f">>, <<"r","0">>, <<"r","1">>, <<"r","2">>, <<"r","3">>,
    <<"r","4">>, <<"r","5">>, <<"r","6">>, <<"r","7">> }

(***************************************************************************)
(* Characters and strings (Rust str methods used by the interpreter).      *)
(***************************************************************************)
UpperCase ==
  << "A","B","C","D","E","F","G","H","I","J","K","L","M",
     "N","O","P","Q","R","S","T","U","V","W","X","Y","Z" >>

LowerCase ==
  << "a","b","c","d","e","f","g","h","i","j","k","l","m",
     "n","o","p","q","r","s","t","u","v","w","x","y","z" >>

DigitChars == << "0","1","2","3","4","5","6","7","8","9" >>

\* The characters of the model in ascending code-point order (u8 / char Ord).
CharOrder ==
  << " ", "%", "+", "-", "." >> \o DigitChars \o UpperCase \o << "_" >> \o LowerCase

IndexOf(seq, c) == CHOOSE i \in 1..Len(seq) : seq[i] = c

InSeq(seq, c) == \E i \in 1..Len(seq) : seq[i] = c

CharCode(c) == IF InSeq(CharOrder, c) THEN IndexOf(CharOrder, c) ELSE 0

\* char::to_lowercase on one character
LowerChar(c) == IF InSeq(UpperCase, c) THEN LowerCase[IndexOf(UpperCase, c)] ELSE c

\* str::to_lowercase
to_lowercase(s) == [i \in 1..Len(s) |-> LowerChar(s[i])]

RECURSIVE TrimStart(_)
TrimStart(s) ==
  IF s # <<>> /\ Head(s) = " " THEN TrimStart(Tail(s)) ELSE s

RECURSIVE TrimEnd(_)
TrimEnd(s) ==
  IF s # <<>> /\ s[Len(s)] = " " THEN TrimEnd(SubSeq(s, 1, Len(s) - 1)) ELSE s

\* str::trim
trim(s) == TrimEnd(TrimStart(s))

\* str::starts_with
starts_with(s, p) == Len(s) >= Len(p) /\ SubSeq(s, 1, Len(p)) = p

\* The rest of s after the prefix p (the Some payload of str::strip_prefix).
after_prefix(s, p) == SubSeq(s, Len(p) + 1, Len(s))

\* The digit value of a lower-case character: 0..9, a = 10 .. z = 35, else -1
digit_value(l) ==
  IF InSeq(DigitChars, l) THEN IndexOf(DigitChars, l) - 1
  ELSE IF InSeq(LowerCase, l) THEN IndexOf(LowerCase, l) + 9
  ELSE -1

\* char::to_digit(radix): -1 when c is no digit of that radix
to_digit(c, radix) ==
  IF digit_value(LowerChar(c)) >= 0 /\ digit_value(LowerChar(c)) < radix
  THEN digit_value(LowerChar(c))
  ELSE -1

RECURSIVE digits_value(_, _, _)
digits_value(ds, radix, acc) ==
  IF ds = <<>> THEN acc
  ELSE digits_value(Tail(ds), radix, acc * radix + to_digit(Head(ds), radix))

\* A parse result: Result<i64, ParseIntError>

ParseErr == [ok |-> FALSE, n |-> 0]

\* Ord::cmp on str: lexicographic on the characters
RECURSIVE cmp_str(_, _)
cmp_str(a, b) ==
  IF a = <<>> /\ b = <<>> THEN "Equal"
  ELSE IF a = <<>> THEN "Less"
  ELSE IF b = <<>> THEN "Greater"
  ELSE IF CharCode(Head(a)) < CharCode(Head(b)) THEN "Less"
  ELSE IF CharCode(Head(a)) > CharCode(Head(b)) THEN "Greater"
  ELSE cmp_str(Tail(a), Tail(b))

\* The digits without their leading zeros.
RECURSIVE significant(_)
significant(ds) == IF ds # <<>> /\ Head(ds) = "0" THEN significant(Tail(ds)) ELSE ds

\* The number written with the significant lower-case digits sig is beyond i64:
\* above 2^63 - 1, or below -2^63 when negative.  (Digit strings of one length
\* are ordered as the numbers they write.)
overflows(negative, sig, radix) ==
  CASE radix = 10 ->
         \/ Len(sig) > 19
         \/ /\ Len(sig) = 19
            /\ cmp_str(sig, IF negative
              THEN << "9","2","2","3","3","7","2","0","3","6","8","5","4","7","7","5","8","0","8" >>
              ELSE << "9","2","2","3","3","7","2","0","3","6","8","5","4","7","7","5","8","0","7" >>)
                 = "Greater"
    [] radix = 16 ->
         \/ Len(sig) > 16
         \/ /\ Len(sig) = 16
            /\ cmp_str(sig, IF negative
              THEN << "8","0","0","0","0","0","0","0","0","0","0","0","0","0","0","0" >>
              ELSE << "7","f","f","f","f","f","f","f","f","f","f","f","f","f","f","f" >>)
                 = "Greater"
    [] radix = 2 ->
         \/ Len(sig) > 64
         \/ Len(sig) = 64 /\ (~negative \/ \E i \in 2..64 : sig[i] = "1")

\* The digits of a literal after its sign: at least one, all of the radix, and
\* the number within i64 (PosOverflow / NegOverflow otherwise).
parse_digits(negative, ds, radix) ==
  IF ds = <<>> THEN ParseErr
  ELSE IF \E i \in 1..Len(ds) : to_digit(ds[i], radix) < 0 THEN ParseErr
  ELSE IF overflows(negative, significant(ds), radix) THEN ParseErr
  ELSE [ok |-> TRUE, n |-> (IF negative THEN -1 ELSE 1) * digits_value(ds, radix, 0)]

\* i64::from_str_radix: an optional sign, then the digits.
from_str_radix(src, radix) ==
  IF src = <<>> THEN ParseErr
  ELSE IF Head(src) \in {"+", "-"} THEN parse_digits(Head(src) = "-", Tail(src), radix)
  ELSE parse_digits(FALSE, src, radix)

\* The radix a trimmed, lower-cased literal is written in.
literal_radix(inp) ==
  IF starts_with(inp, <<"0","x">>) THEN 16
  ELSE IF starts_with(inp, <<"0","b">>) THEN 2
  ELSE 10

\* The literal, without its 0x or 0b prefix, is parsed in its radix.
convert_lowered(inp) ==
  from_str_radix(IF literal_radix(inp) = 10 THEN inp ELSE after_prefix(inp, <<"0","x">>),
                 literal_radix(inp))

\* convert_string_to_num with the fault "the literal is not lower-cased, so
\* the prefixes 0X and 0B are not recognised".
convert_string_to_num_case_sensitive(input) == convert_lowered(trim(input))

convert_string_to_num(input) == convert_lowered(trim(to_lowercase(input)))

\* i64::to_string
RECURSIVE nat_to_string(_)
nat_to_string(n) ==
  IF n < 10 THEN << DigitChars[n + 1] >>
  ELSE nat_to_string(n \div 10) \o << DigitChars[(n % 10) + 1] >>

to_string(n) == IF n < 0 THEN << "-" >> \o nat_to_string(0 - n) ELSE nat_to_string(n)

(***************************************************************************)
(* The Value model (src/src/value.rs).                                     *)
(***************************************************************************)
Number(n) == [t |-> "Number", n |-> n, s |-> <<>>]

String(s) == [t |-> "String", n |-> 0, s |-> s]

\* impl Default for Value
Value_default == Number(0)

\* Result<Value, String>
Ok(v) == [ok |-> TRUE, err |-> "", v |-> v]

Err(e) == [ok |-> FALSE, err |-> e, v |-> Value_default]

\* Option<Value>
Some(v) == [some |-> TRUE, v |-> v]

None == [some |-> FALSE, v |-> Value_default]

\* Result::ok
ResultToOption(r) == IF r.ok THEN Some(r.v) ELSE None

\* Ord::cmp on i64
cmp_num(a, b) == IF a < b THEN "Less" ELSE IF a = b THEN "Equal" ELSE "Greater"

ComparisonOps == {"Eq", "Ne", "Lt", "Le", "Gt", "Ge"}

ComparisonOp_compare(op, ordering) ==
  CASE op = "Eq" -> ordering = "Equal"
    [] op = "Ne" -> ordering # "Equal"
    [] op = "Lt" -> ordering = "Less"
    [] op = "Le" -> ordering # "Greater"
    [] op = "Gt" -> ordering = "Greater"
    [] op = "Ge" -> ordering # "Less"

\* Result<bool, String>
OkBool(b) == [ok |-> TRUE, err |-> "", b |-> b]

ErrBool(e) == [ok |-> FALSE, err |-> e, b |-> FALSE]

\* Value_compare with the fault "values of different variants compare as unequal
\* instead of being rejected".
Value_compare_unequal(self, other, op) ==
  IF self.t = "Number" /\ other.t = "Number"
    THEN OkBool(ComparisonOp_compare(op, cmp_num(self.n, other.n)))
  ELSE IF self.t = "String" /\ other.t = "String"
    THEN OkBool(ComparisonOp_compare(op, cmp_str(self.s, other.s)))
  ELSE IF op \in {"Eq", "Ne"} THEN OkBool(op = "Ne")
  ELSE ErrBool("Invalid comparison")

Value_compare(self, other, op) ==
  IF self.t = "Number" /\ other.t = "Number"
    THEN OkBool(ComparisonOp_compare(op, cmp_num(self.n, other.n)))
  ELSE IF self.t = "String" /\ other.t = "String"
    THEN OkBool(ComparisonOp_compare(op, cmp_str(self.s, other.s)))
  ELSE ErrBool("Invalid comparison")

\* Value_add with the fault "the right text comes first".
Value_add_reversed(self, other) ==
  IF self.t = "Number" /\ other.t = "Number" THEN Ok(Number(self.n + other.n))
  ELSE IF self.t = "String" /\ other.t = "String" THEN Ok(String(other.s \o self.s))
  ELSE Err("Cannot add Number and String")

Value_add(self, other) ==
  IF self.t = "Number" /\ other.t = "Number" THEN Ok(Number(self.n + other.n))
  ELSE IF self.t = "String" /\ other.t = "String" THEN Ok(String(self.s \o other.s))
  ELSE Err("Cannot add Number and String")

\* a.chars().skip(k).collect()
skip_chars(a, k) == IF k >= Len(a) THEN <<>> ELSE SubSeq(a, k + 1, Len(a))


abs(n) == IF n < 0 THEN 0 - n ELSE n

\* Value_sub with the fault "a negative count also removes from the front".
Value_sub_front(self, other) ==
  IF self.t = "Number" /\ other.t = "Number" THEN Ok(Number(self.n - other.n))
  ELSE IF self.t = "String" /\ other.t = "Number" THEN Ok(String(skip_chars(self.s, abs(other.n))))
  ELSE Err("Invalid subtraction")

Value_sub(self, other) ==
  IF self.t = "Number" /\ other.t = "Number" THEN Ok(Number(self.n - other.n))
  ELSE IF self.t = "String" /\ other.t = "Number" THEN
    LET len == Len(self.s)
        abs_len == abs(other.n)
    IN IF other.n >= 0 THEN Ok(String(skip_chars(self.s, abs_len)))
       ELSE IF abs_len >= len THEN Ok(String(<<>>))
       ELSE Ok(String(SubSeq(self.s, 1, len - abs_len)))
  ELSE Err("Invalid subtraction")

\* new_string += a, for _ in 0..b
repeat_str(a, b) ==
  IF b <= 0 \/ a = <<>> THEN <<>>
  ELSE [i \in 1..(Len(a) * b) |-> a[((i - 1) % Len(a)) + 1]]

\* Value_mul with the fault "the operands may come in either order".
Value_mul_commutes(self, other) ==
  IF self.t = "Number" /\ other.t = "Number" THEN Ok(Number(self.n * other.n))
  ELSE IF self.t = "String" /\ other.t = "Number" THEN Ok(String(repeat_str(self.s, other.n)))
  ELSE IF self.t = "Number" /\ other.t = "String" THEN Ok(String(repeat_str(other.s, self.n)))
  ELSE Err("Invalid multiplication between number and string")

Value_mul(self, other) ==
  IF self.t = "Number" /\ other.t = "Number" THEN Ok(Number(self.n * other.n))
  ELSE IF self.t = "String" /\ other.t = "Number" THEN Ok(String(repeat_str(self.s, other.n)))
  ELSE Err("Invalid multiplication between number and string")

\* i64 division truncates toward zero
trunc_div(a, b) == IF a >= 0 THEN a \div b ELSE 0 - ((0 - a) \div b)

\* Value_div with the fault "only a zero denominator is rejected".
Value_div_nonzero(self, other) ==
  IF self.t = "Number" /\ other.t = "Number" THEN
    IF other.n > 0 THEN Ok(Number(trunc_div(self.n, other.n)))
    ELSE IF other.n < 0 THEN Ok(Number(0 - trunc_div(self.n, 0 - other.n)))
    ELSE Err("Division denominator is zero")
  ELSE IF self.t = "String" /\ other.t = "String" THEN Ok(Number(Len(self.s) - Len(other.s)))
  ELSE Err("Invalid division between number and string")

Value_div(self, other) ==
  IF self.t = "Number" /\ other.t = "Number" THEN
    IF other.n > 0 THEN Ok(Number(trunc_div(self.n, other.n)))
    ELSE Err("Division denominator is zero")
  ELSE IF self.t = "String" /\ other.t = "String" THEN Ok(Number(Len(self.s) - Len(other.s)))
  ELSE Err("Invalid division between number and string")

\* Two's-complement bitwise operators on i64, computed bit by bit.  A negative
\* operand is handled through its complement: x = -(~x) - 1.
RECURSIVE nat_and(_, _)
nat_and(a, b) ==
  IF a = 0 \/ b = 0 THEN 0
  ELSE 2 * nat_and(a \div 2, b \div 2) + (IF a % 2 = 1 /\ b % 2 = 1 THEN 1 ELSE 0)

RECURSIVE nat_or(_, _)
nat_or(a, b) ==
  IF a = 0 THEN b
  ELSE IF b = 0 THEN a
  ELSE 2 * nat_or(a \div 2, b \div 2) + (IF a % 2 = 1 \/ b % 2 = 1 THEN 1 ELSE 0)

\* a AND NOT b on naturals
RECURSIVE nat_andnot(_, _)
nat_andnot(a, b) ==
  IF a = 0 THEN 0
  ELSE 2 * nat_andnot(a \div 2, b \div 2) + (IF a % 2 = 1 /\ b % 2 = 0 THEN 1 ELSE 0)

bit_not(a) == 0 - a - 1

bit_and(a, b) ==
  IF a >= 0 /\ b >= 0 THEN nat_and(a, b)
  ELSE IF a >= 0 THEN nat_andnot(a, bit_not(b))
  ELSE IF b >= 0 THEN nat_andnot(b, bit_not(a))
  ELSE bit_not(nat_or(bit_not(a), bit_not(b)))

bit_or(a, b) ==
  IF a >= 0 /\ b >= 0 THEN nat_or(a, b)
  ELSE IF a >= 0 THEN bit_not(nat_andnot(bit_not(b), a))
  ELSE IF b >= 0 THEN bit_not(nat_andnot(bit_not(a), b))
  ELSE bit_not(nat_and(bit_not(a), bit_not(b)))

bit_xor(a, b) == bit_or(a, b) - bit_and(a, b)

Value_and(self, other) ==
  IF self.t = "Number" /\ other.t = "Number" THEN Ok(Number(bit_and(self.n, other.n)))
  ELSE Err("Invalid 'and'. Both arguments must be numbers")

Value_or(self, other) ==
  IF self.t = "Number" /\ other.t = "Number" THEN Ok(Number(bit_or(self.n, other.n)))
  ELSE Err("Invalid 'and'. Both arguments must be numbers.")

\* Value_xor with the fault "a Text operand counts as the Number 0".
Value_xor_lenient(self, other) ==
  Ok(Number(bit_xor(IF self.t = "Number" THEN self.n ELSE 0,
                    IF other.t = "Number" THEN other.n ELSE 0)))

Value_xor(self, other) ==
  IF self.t = "Number" /\ other.t = "Number" THEN Ok(Number(bit_xor(self.n, other.n)))
  ELSE Err("Invalid 'xor'. Both arguments must be numbers.")

\* Value_not with the fault "Not negates".
Value_not_negates(self) ==
  IF self.t = "Number" THEN Ok(Number(0 - self.n))
  ELSE Err("Cannot do binary operation NOT on a string")

Value_not(self) ==
  IF self.t = "Number" THEN Ok(Number(bit_not(self.n)))
  ELSE Err("Invalid 'not'. Must be a number")

(***************************************************************************)
(* The AST (src/src/ast.rs).                                               *)
(***************************************************************************)
OpRegister(s) == [k |-> "Register", s |-> s]

OpMemory(s) == [k |-> "Memory", s |-> s]

OpNumber(s) == [k |-> "Number", s |-> s]

OpIdentifier(s) == [k |-> "Identifier", s |-> s]

OpConstant(s) == [k |-> "Constant", s |-> s]


OpString(s) == [k |-> "String", s |-> s]

\* Filler for the operand fields an instruction does not have.
NoOperand == [k |-> "Absent", s |-> <<>>]

Comparison(left, equality, right) == [left |-> left, equality |-> equality, right |-> right]

NoComparison == Comparison(NoOperand, "Eq", NoOperand)

\* An instruction: op is the variant; x and y are its first and second operand
\* field in declaration order; opt says whether the Option field (Pop's dest,
\* Jmp's comparison) is Some.
Instr(op, name, x, y, opt, cmp) ==
  [op |-> op, name |-> name, x |-> x, y |-> y, opt |-> opt, cmp |-> cmp]

Define(name, value) == Instr("Define", name, value, NoOperand, FALSE, NoComparison)

Set(value, dest) == Instr("Set", <<>>, value, dest, FALSE, NoComparison)

Load(src, dest) == Instr("Load", <<>>, src, dest, FALSE, NoComparison)

Store(value, dest) == Instr("Store", <<>>, value, dest, FALSE, NoComparison)

Clear(target) == Instr("Clear", <<>>, target, NoOperand, FALSE, NoComparison)

Add(left, right) == Instr("Add", <<>>, left, right, FALSE, NoComparison)

Sub(left, right) == Instr("Sub", <<>>, left, right, FALSE, NoComparison)

Mul(left, right) == Instr("Mul", <<>>, left, right, FALSE, NoComparison)

Div(left, right) == Instr("Div", <<>>, left, right, FALSE, NoComparison)

Inc(dest) == Instr("Inc", <<>>, dest, NoOperand, FALSE, NoComparison)

Dec(dest) == Instr("Dec", <<>>, dest, NoOperand, FALSE, NoComparison)

Mov(src, dest) == Instr("Mov", <<>>, src, dest, FALSE, NoComparison)

Push(src) == Instr("Push", <<>>, src, NoOperand, FALSE, NoComparison)

Pop(dest) == Instr("Pop", <<>>, dest, NoOperand, TRUE, NoComparison)

PopDiscard == Instr("Pop", <<>>, NoOperand, NoOperand, FALSE, NoComparison)

Jmp(target) == Instr("Jmp", <<>>, target, NoOperand, FALSE, NoComparison)

JmpIf(target, comparison) == Instr("Jmp", <<>>, target, NoOperand, TRUE, comparison)

Call(target) == Instr("Call", <<>>, target, NoOperand, FALSE, NoComparison)

And(left, right) == Instr("And", <<>>, left, right, FALSE, NoComparison)

Or(left, right) == Instr("Or", <<>>, left, right, FALSE, NoComparison)

Xor(left, right) == Instr("Xor", <<>>, left, right, FALSE, NoComparison)

Not(op) == Instr("Not", <<>>, op, NoOperand, FALSE, NoComparison)

Ret == Instr("Ret", <<>>, NoOperand, NoOperand, FALSE, NoComparison)

Halt == Instr("Halt", <<>>, NoOperand, NoOperand, FALSE, NoComparison)

Label(name) == [kind |-> "Label", name |-> name, instr |-> Halt]

CompileTime(instr) == [kind |-> "CompileTime", name |-> <<>>, instr |-> instr]

Instruction(instr) == [kind |-> "Instruction", name |-> <<>>, instr |-> instr]

(***************************************************************************)
(* The interpreter state (struct Interpreter, src/src/interpreter.rs).     *)
(* The display buffer is never read or written and is left out.            *)
(***************************************************************************)
VARIABLES
  registers,   \* HashMap<String, Value>
  memory,      \* Vec<Value> of RAM_SLOTS cells, indexed from 0
  stack,       \* Vec<Value>, top at the end
  call_stack,  \* Vec<usize>, top at the end
  labels,      \* HashMap<String, usize>
  constants,   \* HashMap<String, Value>
  statements,  \* Vec<Statement>; statement i of the code is statements[i + 1]
  pc,          \* AtomicUsize
  running,     \* AtomicBool
  parses,      \* number of calls of parse() so far
  runpc,       \* where the caller is: "idle", inside run()'s "loop", or "done"
  run_steps,   \* history: the number of iterations the loop of run() has made
  last,        \* history: outcome of the latest step and the machine before it
  prev         \* history: the value of last before the latest step

vars ==
  << registers, memory, stack, call_stack, labels, constants, statements,
     pc, running, parses, runpc, run_steps, last, prev >>

\* The mutable machine state a step works on, as one value.
Machine ==
  [ registers |-> registers, memory |-> memory, stack |-> stack,
    call_stack |-> call_stack, pc |-> pc, running |-> running ]

\* Result<(), String> of a handler, with the machine it leaves behind.
MOk(m) == [ok |-> TRUE, err |-> "", m |-> m]

MErr(e, m) == [ok |-> FALSE, err |-> e, m |-> m]

\* Option<Value> from a parsed literal
NumberOption(num) == IF num.ok THEN Some(Number(num.n)) ELSE None

\* get_address after the '%' is stripped and the text converted
read_cell(m, address) ==
  IF ~address.ok THEN Err("Invalid address:")
  ELSE IF address.n < 0 THEN Err("Negative memory address")
  ELSE IF address.n >= RAM_SLOTS THEN Err("Address out of range")
  ELSE Ok(m.memory[address.n])

get_address(m, addr) ==
  IF ~starts_with(addr, <<"%">>) THEN Err("Invalid address")
  ELSE read_cell(m, convert_string_to_num(after_prefix(addr, <<"%">>)))

\* get_register on a lower-cased name that starts with '%'
get_register_indirect(m, r) ==
  IF r \notin DOMAIN m.registers THEN Err("register invalid")
  ELSE IF m.registers[r].t = "Number" THEN get_address(m, to_string(m.registers[r].n))
  ELSE Err("Register does not hold a numeric value for indirect access")

\* get_register on the lower-cased name
get_register_lowered(m, reg) ==
  IF starts_with(reg, <<"%">>) THEN get_register_indirect(m, after_prefix(reg, <<"%">>))
  ELSE IF reg \in DOMAIN m.registers THEN Ok(m.registers[reg])
  ELSE Err("Register does not exist")

get_register(m, register) == get_register_lowered(m, to_lowercase(register))

\* set_register_lowered with the fault "a write to a name that is not in the
\* register file creates the register".
set_register_lowered_inserts(m, reg, value) ==
  MOk([m EXCEPT !.registers =
         [r \in (DOMAIN m.registers) \cup {reg} |-> IF r = reg THEN value ELSE m.registers[r]]])

\* set_register on the lower-cased name
set_register_lowered(m, reg, value) ==
  IF reg \in DOMAIN m.registers
    THEN MOk([m EXCEPT !.registers = [m.registers EXCEPT ![reg] = value]])
    ELSE MErr("Register does not exist", m)

set_register(m, register, value) == set_register_lowered(m, to_lowercase(register), value)

\* write_cell with the fault "the address wraps around the memory instead of
\* being rejected".
write_cell_wrapping(m, num, value) ==
  IF ~num.ok THEN MErr("Invalid address:", m)
  ELSE MOk([m EXCEPT !.memory = [m.memory EXCEPT ![num.n % RAM_SLOTS] = value]])

\* set_address once the address text is converted
write_cell(m, num, value) ==
  IF ~num.ok THEN MErr("Invalid address:", m)
  ELSE IF num.n < 0 THEN MErr("Negative memory address", m)
  ELSE IF num.n >= RAM_SLOTS THEN MErr("Address out of range", m)
  ELSE MOk([m EXCEPT !.memory = [m.memory EXCEPT ![num.n] = value]])

\* reg_address in set_address: the address text is replaced by the Number that
\* a register of that name holds, when there is one
redirect(stripped, reg) ==
  IF reg.ok /\ reg.v.t = "Number" THEN to_string(reg.v.n) ELSE stripped

\* set_address on the text without its '%'
set_address_stripped(m, stripped, value) ==
  write_cell(m, convert_string_to_num(redirect(stripped, get_register(m, stripped))), value)

\* address.strip_prefix('%').unwrap_or(address)
strip_marker(address) ==
  IF starts_with(address, <<"%">>) THEN after_prefix(address, <<"%">>) ELSE address

set_address(m, address, value) == set_address_stripped(m, strip_marker(address), value)

\* get_operand_value with the fault "a constant is visible only once its Define
\* lies before pc".
get_operand_value_scoped(m, operand) ==
  CASE operand.k = "Number" -> NumberOption(convert_string_to_num(operand.s))
    [] operand.k = "Constant" ->
         IF /\ operand.s \in DOMAIN constants
            /\ \E i \in 1 .. m.pc :
                 statements[i].kind = "CompileTime" /\ statements[i].instr.name = operand.s
           THEN Some(constants[operand.s])
           ELSE None
    [] operand.k = "Character" -> Some(String(operand.s))
    [] operand.k = "String" -> Some(String(operand.s))
    [] operand.k = "Memory" -> ResultToOption(get_address(m, operand.s))
    [] operand.k \in {"Register", "IndirectMemory"} -> ResultToOption(get_register(m, operand.s))
    [] operand.k = "Identifier" -> None

get_operand_value(m, operand) ==
  CASE operand.k = "Number" -> NumberOption(convert_string_to_num(operand.s))
    [] operand.k = "Constant" ->
         IF operand.s \in DOMAIN constants THEN Some(constants[operand.s]) ELSE None
    [] operand.k = "Character" -> Some(String(operand.s))
    [] operand.k = "String" -> Some(String(operand.s))
    [] operand.k = "Memory" -> ResultToOption(get_address(m, operand.s))
    [] operand.k \in {"Register", "IndirectMemory"} -> ResultToOption(get_register(m, operand.s))
    [] operand.k = "Identifier" -> None

\* set_operand_value with the fault "a write to a constant, an identifier or a
\* literal is silently dropped".
set_operand_value_dropped(m, operand, value) ==
  CASE operand.k = "Memory" -> set_address(m, operand.s, value)
    [] operand.k \in {"Register", "IndirectMemory"} -> set_register(m, operand.s, value)
    [] OTHER -> MOk(m)

set_operand_value(m, operand, value) ==
  CASE operand.k = "Memory" -> set_address(m, operand.s, value)
    [] operand.k \in {"Register", "IndirectMemory"} -> set_register(m, operand.s, value)
    [] operand.k = "Constant" -> MErr("Cannot change constant", m)
    [] operand.k = "Identifier" -> MErr("Cannot set identifier", m)
    [] operand.k \in {"Number", "Character", "String"} -> MErr("Cannot set operand, invalid type", m)

execute_set(m, value, dest) ==
  CASE dest.k = "Register" -> set_register(m, dest.s, value)
    [] dest.k = "Memory" -> set_address(m, dest.s, value)
    [] OTHER -> MErr("Invalid operand for set", m)

\* The value execute_load reads from src
load_source(m, src) ==
  CASE src.k \in {"Memory", "Number"} -> get_address(m, src.s)
    [] src.k = "Register" -> get_register(m, src.s)
    [] OTHER -> Err("Invalid src for LOAD")

\* load_into with the fault "a destination that is not a register is written
\* like any other operand".
load_into_any_dest(m, value, register) ==
  IF ~value.ok THEN MErr(value.err, m)
  ELSE set_operand_value(m, register, value.v)

\* execute_load once src is read
load_into(m, value, register) ==
  IF ~value.ok THEN MErr(value.err, m)
  ELSE IF register.k = "Register" THEN set_register(m, register.s, value.v)
  ELSE MErr("Invalid operands used in LOAD", m)

execute_load(m, src, register) == load_into(m, load_source(m, src), register)

\* execute_clear with the fault "the target is emptied, a Text stays a Text".
execute_clear_emptied(m, dest) ==
  IF get_operand_value(m, dest).some /\ get_operand_value(m, dest).v.t = "String"
    THEN set_operand_value(m, dest, String(<<>>))
    ELSE set_operand_value(m, dest, Value_default)

execute_clear(m, dest) == set_operand_value(m, dest, Value_default)

\* Write an Option<Value> to dest: None is the error e
write_resolved(m, value, dest, e) ==
  IF ~value.some THEN MErr(e, m) ELSE set_operand_value(m, dest, value.v)

execute_move(m, src, dest) ==
  write_resolved(m, get_operand_value(m, src), dest, "Could not resolve value of operand")

\* Write a Result<Value, String> to dest: an error is returned as it is
write_result(m, result, dest) ==
  IF ~result.ok THEN MErr(result.err, m) ELSE set_operand_value(m, dest, result.v)

\* The Value operator named op, applied
apply_operator(op, l, r) ==
  CASE op = "add" -> Value_add(l, r)
    [] op = "sub" -> Value_sub(l, r)
    [] op = "mul" -> Value_mul(l, r)
    [] op = "div" -> Value_div(l, r)
    [] op = "and" -> Value_and(l, r)
    [] op = "or" -> Value_or(l, r)
    [] op = "xor" -> Value_xor(l, r)

\* binary_resolved with the fault "the left operand is stored in the accumulator
\* before the right operand is checked".
binary_resolved_eager(m, left_val, right_val, op) ==
  IF ~left_val.some THEN MErr("Could not resolve value of operand", m)
  ELSE IF ~right_val.some
    THEN MErr("Could not resolve value of operand",
              [m EXCEPT !.registers = [m.registers EXCEPT ![ACC] = left_val.v]])
  ELSE write_result(m, apply_operator(op, left_val.v, right_val.v), OpRegister(ACC))

\* The common body of execute_add .. execute_xor once both operands are
\* resolved: apply the Value operator and write the accumulator.
binary_resolved(m, left_val, right_val, op) ==
  IF ~left_val.some THEN MErr("Could not resolve value of operand", m)
  ELSE IF ~right_val.some THEN MErr("Could not resolve value of operand", m)
  ELSE write_result(m, apply_operator(op, left_val.v, right_val.v), OpRegister(ACC))

\* binary_to_acc with the fault "the result is written to the left operand".
binary_to_left(m, left, right, op) ==
  IF ~get_operand_value(m, left).some \/ ~get_operand_value(m, right).some
    THEN MErr("Could not resolve value of operand", m)
  ELSE write_result(m, apply_operator(op, get_operand_value(m, left).v,
                                      get_operand_value(m, right).v), left)

\* The common body of execute_add .. execute_xor.
binary_to_acc(m, left, right, op) ==
  binary_resolved(m, get_operand_value(m, left), get_operand_value(m, right), op)

execute_add(m, left, right) == binary_to_acc(m, left, right, "add")

execute_sub(m, left, right) == binary_to_acc(m, left, right, "sub")

execute_mul(m, left, right) == binary_to_acc(m, left, right, "mul")

execute_div(m, left, right) == binary_to_acc(m, left, right, "div")

execute_and(m, left, right) == binary_to_acc(m, left, right, "and")

execute_or(m, left, right) == binary_to_acc(m, left, right, "or")

execute_xor(m, left, right) == binary_to_acc(m, left, right, "xor")

\* The common body of execute_inc and execute_dec once dest is resolved: apply
\* the Value operator with Number(1) and write the result back into dest.
\* update_resolved with the fault "the result goes to the accumulator, like the
\* result of Add and Sub".
update_resolved_to_acc(m, value, dest, op) ==
  IF ~value.some THEN MErr("Could not resolve value of operand", m)
  ELSE write_result(m, apply_operator(op, value.v, Number(1)), OpRegister(ACC))

update_resolved(m, value, dest, op) ==
  IF ~value.some THEN MErr("Could not resolve value of operand", m)
  ELSE write_result(m, apply_operator(op, value.v, Number(1)), dest)

execute_inc(m, dest) == update_resolved(m, get_operand_value(m, dest), dest, "add")

execute_dec(m, dest) == update_resolved(m, get_operand_value(m, dest), dest, "sub")

\* execute_not once src is resolved
not_resolved(m, val) ==
  IF ~val.some THEN MErr("Could not resolve value of operand", m)
  ELSE write_result(m, Value_not(val.v), OpRegister(ACC))

execute_not(m, src) == not_resolved(m, get_operand_value(m, src))

\* branch with the fault "the untaken branch is advanced by the handler and by
\* step as well".
branch_twice(m, idx, result) ==
  IF ~result.ok THEN MErr(result.err, m)
  ELSE IF ~result.b THEN MOk([m EXCEPT !.pc = m.pc + 2])
  ELSE MOk([m EXCEPT !.pc = idx])

\* execute_jump once the comparison is evaluated
branch(m, idx, result) ==
  IF ~result.ok THEN MErr(result.err, m)
  ELSE IF ~result.b THEN MOk([m EXCEPT !.pc = m.pc + 1])
  ELSE MOk([m EXCEPT !.pc = idx])

\* execute_jump once both sides of the comparison are resolved
guarded_jump(m, idx, left, right, equality) ==
  IF ~left.some THEN MErr("Operand not found", m)
  ELSE IF ~right.some THEN MErr("Operand not found", m)
  ELSE branch(m, idx, Value_compare(left.v, right.v, equality))

\* execute_jump with the fault "the label is looked up only when the jump is
\* taken": a guard that is false skips the lookup.
execute_jump_guard_first(m, label, has_comparison, comparison) ==
  IF /\ has_comparison
     /\ get_operand_value(m, comparison.left).some
     /\ get_operand_value(m, comparison.right).some
     /\ Value_compare(get_operand_value(m, comparison.left).v,
                      get_operand_value(m, comparison.right).v, comparison.equality).ok
     /\ ~Value_compare(get_operand_value(m, comparison.left).v,
                       get_operand_value(m, comparison.right).v, comparison.equality).b
    THEN MOk([m EXCEPT !.pc = m.pc + 1])
  ELSE IF label \notin DOMAIN labels THEN MErr("Label does not exist", m)
  ELSE IF has_comparison
    THEN guarded_jump(m, labels[label], get_operand_value(m, comparison.left),
                      get_operand_value(m, comparison.right), comparison.equality)
  ELSE MOk([m EXCEPT !.pc = labels[label]])

execute_jump(m, label, has_comparison, comparison) ==
  IF label \notin DOMAIN labels THEN MErr("Label does not exist", m)
  ELSE IF has_comparison
    THEN guarded_jump(m, labels[label], get_operand_value(m, comparison.left),
                      get_operand_value(m, comparison.right), comparison.equality)
  ELSE MOk([m EXCEPT !.pc = labels[label]])

execute_call(m, label) ==
  IF label \notin DOMAIN labels THEN MErr("Label does not exist", m)
  ELSE MOk([m EXCEPT !.call_stack = Append(m.call_stack, m.pc), !.pc = labels[label]])

\* execute_ret with the fault "a Ret on the empty call stack falls through to
\* the next statement".
execute_ret_falls_through(m) ==
  IF m.call_stack # <<>>
    THEN MOk([m EXCEPT !.call_stack = SubSeq(m.call_stack, 1, Len(m.call_stack) - 1),
                       !.pc = m.call_stack[Len(m.call_stack)] + 1])
    ELSE MOk([m EXCEPT !.pc = m.pc + 1])

\* execute_ret with the fault "pc is set to the popped index itself".
execute_ret_to_call(m) ==
  IF m.call_stack # <<>>
    THEN MOk([m EXCEPT !.call_stack = SubSeq(m.call_stack, 1, Len(m.call_stack) - 1),
                       !.pc = m.call_stack[Len(m.call_stack)]])
    ELSE MErr("Cannot return from a function since the call stack is empty", m)

\* execute_ret with the fault "execution resumes two statements after the
\* call".
execute_ret_skips_one(m) ==
  IF m.call_stack = <<>>
    THEN MErr("Cannot return from a function since the call stack is empty", m)
  ELSE MOk([m EXCEPT !.call_stack = SubSeq(m.call_stack, 1, Len(m.call_stack) - 1),
                     !.pc = m.call_stack[Len(m.call_stack)] + 2])

execute_ret(m) ==
  IF m.call_stack # <<>>
    THEN MOk([m EXCEPT !.call_stack = SubSeq(m.call_stack, 1, Len(m.call_stack) - 1),
                       !.pc = m.call_stack[Len(m.call_stack)] + 1])
    ELSE MErr("Cannot return from a function since the call stack is empty", m)

\* execute_halt with the fault "the running flag is flipped".
execute_halt_flips(m) == [m EXCEPT !.running = ~m.running]

execute_halt(m) == IF m.running THEN [m EXCEPT !.running = FALSE] ELSE m

\* get_operand_value(src).unwrap_or_default()
unwrap_or_default(resolved) == IF resolved.some THEN resolved.v ELSE Value_default

\* execute_push with the fault "an unresolved source is an error".
execute_push_strict(m, src) ==
  IF ~get_operand_value(m, src).some THEN MErr("Could not resolve value of operand", m)
  ELSE MOk([m EXCEPT !.stack = Append(m.stack, get_operand_value(m, src).v)])

execute_push(m, src) ==
  MOk([m EXCEPT !.stack = Append(m.stack, unwrap_or_default(get_operand_value(m, src)))])

\* execute_pop with the fault "a Pop on the empty stack yields the default value".
execute_pop_default(m, has_dest, dest) ==
  IF m.stack = <<>>
    THEN IF has_dest THEN set_operand_value(m, dest, Value_default) ELSE MOk(m)
  ELSE IF has_dest
    THEN set_operand_value([m EXCEPT !.stack = SubSeq(m.stack, 1, Len(m.stack) - 1)],
                           dest, m.stack[Len(m.stack)])
  ELSE MOk([m EXCEPT !.stack = SubSeq(m.stack, 1, Len(m.stack) - 1)])

\* execute_pop with the fault "the oldest value is removed instead of the newest".
execute_pop_oldest(m, has_dest, dest) ==
  IF m.stack = <<>> THEN MErr("Stack is empty, cannot pop", m)
  ELSE IF has_dest THEN set_operand_value([m EXCEPT !.stack = Tail(m.stack)], dest, Head(m.stack))
  ELSE MOk([m EXCEPT !.stack = Tail(m.stack)])

execute_pop(m, has_dest, dest) ==
  IF m.stack = <<>> THEN MErr("Stack is empty, cannot pop", m)
  ELSE IF has_dest
    THEN set_operand_value([m EXCEPT !.stack = SubSeq(m.stack, 1, Len(m.stack) - 1)],
                           dest, m.stack[Len(m.stack)])
  ELSE MOk([m EXCEPT !.stack = SubSeq(m.stack, 1, Len(m.stack) - 1)])

execute_store(m, register, memory_address) ==
  IF register.k # "Register" THEN MErr("Store must be 'STORE register, memory address'", m)
  ELSE write_resolved(m, get_operand_value(m, register), memory_address, "Invalid register")

\* execute_set on an Option<Value>: None is the error of the Set arm
set_resolved(m, val, dest) ==
  IF ~val.some THEN MErr("No value found", m) ELSE execute_set(m, val.v, dest)

\* The match on the instruction in step(): the handler's result.
dispatch(m, i) ==
  CASE i.op = "Define" -> MOk(m)
    [] i.op = "Set" -> set_resolved(m, get_operand_value(m, i.x), i.y)
    [] i.op = "Load" -> execute_load(m, i.x, i.y)
    [] i.op = "Clear" -> execute_clear(m, i.x)
    [] i.op = "Mov" -> execute_move(m, i.x, i.y)
    [] i.op = "Add" -> execute_add(m, i.x, i.y)
    [] i.op = "Sub" -> execute_sub(m, i.x, i.y)
    [] i.op = "Mul" -> execute_mul(m, i.x, i.y)
    [] i.op = "Div" -> execute_div(m, i.x, i.y)
    [] i.op = "Inc" -> execute_inc(m, i.x)
    [] i.op = "Dec" -> execute_dec(m, i.x)
    [] i.op = "And" -> execute_and(m, i.x, i.y)
    [] i.op = "Or" -> execute_or(m, i.x, i.y)
    [] i.op = "Xor" -> execute_xor(m, i.x, i.y)
    [] i.op = "Not" -> execute_not(m, i.x)
    [] i.op = "Jmp" ->
         IF i.x.k = "Identifier" THEN execute_jump(m, i.x.s, i.opt, i.cmp)
         ELSE MErr("Invalid target", m)
    [] i.op = "Call" ->
         IF i.x.k = "Identifier" THEN execute_call(m, i.x.s)
         ELSE MErr("Invalid target", m)
    [] i.op = "Ret" -> execute_ret(m)
    [] i.op = "Halt" -> MOk(execute_halt(m))
    [] i.op = "Push" -> execute_push(m, i.x)
    [] i.op = "Pop" -> execute_pop(m, i.opt, i.x)
    [] i.op = "Store" -> execute_store(m, i.x, i.y)

\* increment_pc with the fault "no arm clears it".
increment_pc_always(i) == i.op = i.op

\* increment_pc with the fault "it is never set".
increment_pc_never(i) == i.op # i.op

\* increment_pc at the end of step(): cleared by the Jmp, Call, Ret and Halt arms.
increment_pc(i) == i.op \notin {"Jmp", "Call", "Ret", "Halt"}

\* finish_step with the fault "pc is advanced before the handler's result is
\* looked at, so a failed instruction is skipped".
finish_step_skips_failed(m, i, r) ==
  IF increment_pc(i) THEN [r EXCEPT !.m.pc = m.pc + 1] ELSE r

\* The end of step(): an error is returned as it is; otherwise pc is set to the
\* value loaded at the start plus one when increment_pc is still set.
finish_step(m, i, r) ==
  IF ~r.ok THEN r
  ELSE IF increment_pc(i) THEN MOk([r.m EXCEPT !.pc = m.pc + 1])
  ELSE r

\* step with the fault "a step past the end still advances pc and does not halt".
step_past_end(m) ==
  IF m.pc >= Len(statements) THEN MOk([m EXCEPT !.pc = m.pc + 1])
  ELSE IF statements[m.pc + 1].kind \in {"Label", "CompileTime"}
    THEN MOk([m EXCEPT !.pc = m.pc + 1])
  ELSE finish_step(m, statements[m.pc + 1].instr, dispatch(m, statements[m.pc + 1].instr))

\* Interpreter::step on machine m: the result and the machine it leaves.
step(m) ==
  IF m.pc >= Len(statements) THEN MOk(execute_halt(m))
  ELSE IF statements[m.pc + 1].kind \in {"Label", "CompileTime"}
    THEN MOk([m EXCEPT !.pc = m.pc + 1])
  ELSE finish_step(m, statements[m.pc + 1].instr, dispatch(m, statements[m.pc + 1].instr))

(***************************************************************************)
(* The RwLock acquisitions of a step.  registers, memory, stack and        *)
(* call_stack are each behind an RwLock; a guard is held from read() or    *)
(* write() until it is dropped.  The trace of a function is computed on    *)
(* the machine before the step: no handler writes a container that a later *)
(* lookup of the same step depends on.                                     *)
(***************************************************************************)
\* The scope of a guard: the lock of container c is acquired in `mode`, the
\* events of `inner` happen while it is held, and the guard is dropped.
Locked(mode, c, inner) ==
  << [e |-> "acquire", mode |-> mode, c |-> c] >> \o inner
    \o << [e |-> "release", mode |-> mode, c |-> c] >>

\* get_address: memory.read() is reached only by an address in range.
get_address_locks(m, addr) ==
  IF get_address(m, addr).ok THEN Locked("read", "memory", <<>>) ELSE <<>>

\* get_register: the guard of registers.read() lives to the end of the
\* function, so the indirect branch calls get_address while it is held.
get_register_locks(m, register) ==
  Locked("read", "registers",
         IF /\ starts_with(to_lowercase(register), <<"%">>)
            /\ after_prefix(to_lowercase(register), <<"%">>) \in DOMAIN m.registers
            /\ m.registers[after_prefix(to_lowercase(register), <<"%">>)].t = "Number"
           THEN get_address_locks(
                  m, to_string(m.registers[after_prefix(to_lowercase(register), <<"%">>)].n))
           ELSE <<>>)

\* set_address with the fault "memory.write() is taken first and held during
\* the register lookups".
set_address_locks_held(m, address) ==
  Locked("write", "memory",
         get_register_locks(m, strip_marker(address)) \o
           (IF /\ get_register(m, strip_marker(address)).ok
               /\ get_register(m, strip_marker(address)).v.t = "Number"
              THEN get_register_locks(m, strip_marker(address))
              ELSE <<>>))

\* set_address: get_register is called once, and once more when it returned a
\* Number; memory.write() is reached only by an address in range.
set_address_locks(m, address) ==
  get_register_locks(m, strip_marker(address)) \o
    (IF /\ get_register(m, strip_marker(address)).ok
        /\ get_register(m, strip_marker(address)).v.t = "Number"
       THEN get_register_locks(m, strip_marker(address))
       ELSE <<>>) \o
    (IF set_address(m, address, Value_default).ok
       THEN Locked("write", "memory", <<>>)
       ELSE <<>>)

get_operand_value_locks(m, operand) ==
  CASE operand.k = "Memory" -> get_address_locks(m, operand.s)
    [] operand.k \in {"Register", "IndirectMemory"} -> get_register_locks(m, operand.s)
    [] OTHER -> <<>>

\* set_operand_value; set_register holds registers.write() and calls nothing.
set_operand_value_locks(m, operand) ==
  CASE operand.k = "Memory" -> set_address_locks(m, operand.s)
    [] operand.k \in {"Register", "IndirectMemory"} -> Locked("write", "registers", <<>>)
    [] OTHER -> <<>>

\* The lock events of the handler of instruction i, in order.  A `?` that
\* returns early ends the trace; every guard is dropped before the handler
\* returns.
dispatch_locks(m, i) ==
  CASE i.op \in {"Define", "Halt"} -> <<>>
    [] i.op = "Set" ->
         get_operand_value_locks(m, i.x) \o
           (IF get_operand_value(m, i.x).some /\ i.y.k \in {"Register", "Memory"}
              THEN set_operand_value_locks(m, i.y) ELSE <<>>)
    [] i.op = "Mov" ->
         get_operand_value_locks(m, i.x) \o
           (IF get_operand_value(m, i.x).some THEN set_operand_value_locks(m, i.y) ELSE <<>>)
    [] i.op = "Load" ->
         (CASE i.x.k \in {"Memory", "Number"} -> get_address_locks(m, i.x.s)
            [] i.x.k = "Register" -> get_register_locks(m, i.x.s)
            [] OTHER -> <<>>) \o
           (IF load_source(m, i.x).ok /\ i.y.k = "Register"
              THEN Locked("write", "registers", <<>>) ELSE <<>>)
    [] i.op = "Store" ->
         IF i.x.k # "Register" THEN <<>>
         ELSE get_operand_value_locks(m, i.x) \o
                (IF get_operand_value(m, i.x).some
                   THEN set_operand_value_locks(m, i.y) ELSE <<>>)
    [] i.op = "Clear" -> set_operand_value_locks(m, i.x)
    [] i.op \in {"Add", "Sub", "Mul", "Div", "And", "Or", "Xor"} ->
         get_operand_value_locks(m, i.x) \o
           (IF ~get_operand_value(m, i.x).some THEN <<>>
            ELSE get_operand_value_locks(m, i.y) \o
                   \* the accumulator is written when the right operand resolved
                   \* and the operator succeeded, which is when the handler succeeds
                   (IF dispatch(m, i).ok THEN Locked("write", "registers", <<>>) ELSE <<>>))
    [] i.op \in {"Inc", "Dec"} ->
         get_operand_value_locks(m, i.x) \o
           (IF /\ get_operand_value(m, i.x).some
               /\ apply_operator(IF i.op = "Inc" THEN "add" ELSE "sub",
                                 get_operand_value(m, i.x).v, Number(1)).ok
              THEN set_operand_value_locks(m, i.x) ELSE <<>>)
    [] i.op = "Not" ->
         get_operand_value_locks(m, i.x) \o
           (IF get_operand_value(m, i.x).some /\ Value_not(get_operand_value(m, i.x).v).ok
              THEN Locked("write", "registers", <<>>) ELSE <<>>)
    [] i.op = "Jmp" ->
         IF i.x.k # "Identifier" \/ i.x.s \notin DOMAIN labels \/ ~i.opt THEN <<>>
         ELSE get_operand_value_locks(m, i.cmp.left) \o
                (IF get_operand_value(m, i.cmp.left).some
                   THEN get_operand_value_locks(m, i.cmp.right) ELSE <<>>)
    [] i.op = "Call" ->
         IF i.x.k = "Identifier" /\ i.x.s \in DOMAIN labels
           THEN Locked("write", "call_stack", <<>>) ELSE <<>>
    [] i.op = "Ret" -> Locked("write", "call_stack", <<>>)
    [] i.op = "Push" -> get_operand_value_locks(m, i.x) \o Locked("write", "stack", <<>>)
    [] i.op = "Pop" ->
         Locked("write", "stack", <<>>) \o
           (IF m.stack # <<>> /\ i.opt THEN set_operand_value_locks(m, i.x) ELSE <<>>)

(***************************************************************************)
(* The symbol resolver (compile) and parse.                                *)
(***************************************************************************)
\* HashMap::insert
\* MapInsert with the fault "an existing entry is kept" (the first definition
\* of a name wins).
MapInsert_keeps(f, k, v) == [x \in (DOMAIN f) \cup {k} |-> IF x \in DOMAIN f THEN f[x] ELSE v]

MapInsert(f, k, v) == [x \in (DOMAIN f) \cup {k} |-> IF x = k THEN v ELSE f[x]]

EmptyMap == [x \in {} |-> 0]

resolve_operand_compile(operand, consts) ==
  CASE operand.k = "Number" -> NumberOption(convert_string_to_num(operand.s))
    [] operand.k = "Constant" ->
         IF operand.s \in DOMAIN consts THEN Some(consts[operand.s]) ELSE None
    [] operand.k = "Character" -> Some(String(operand.s))
    [] operand.k = "String" -> Some(String(operand.s))
    [] operand.k \in {"Register", "Memory", "Identifier", "IndirectMemory"} -> None

\* The constant table after a Define of name whose value resolved to `resolved`
\* define_constant with the fault "a Define whose value does not resolve binds
\* the default value".
define_constant_default(consts, name, resolved) ==
  MapInsert(consts, name, IF resolved.some THEN resolved.v ELSE Value_default)

define_constant(consts, name, resolved) ==
  IF resolved.some THEN MapInsert(consts, name, resolved.v) ELSE consts

\* The loop of compile() from statement index i on: the tables it ends with.
RECURSIVE compile_from(_, _, _, _)
compile_from(stmts, i, labs, consts) ==
  IF i >= Len(stmts) THEN [labels |-> labs, constants |-> consts]
  ELSE
    CASE stmts[i + 1].kind = "CompileTime" ->
           compile_from(stmts, i + 1, labs,
                        define_constant(consts, stmts[i + 1].instr.name,
                                        resolve_operand_compile(stmts[i + 1].instr.x, consts)))
      [] stmts[i + 1].kind = "Label" ->
           compile_from(stmts, i + 1, MapInsert(labs, stmts[i + 1].name, i), consts)
      [] stmts[i + 1].kind = "Instruction" -> compile_from(stmts, i + 1, labs, consts)

\* Interpreter::compile: it starts from the tables the interpreter already holds.
compile(stmts, labs, consts) == compile_from(stmts, 0, labs, consts)

(***************************************************************************)
(* The programs the model runs: the statement sequences handed to parse(). *)
(***************************************************************************)
\* The operands the programs of the model are built from.
operands ==
  [ r0 |-> OpRegister(<<"r","0">>),
    r1 |-> OpRegister(<<"r","1">>),
    r2 |-> OpRegister(<<"r","2">>),
    r3 |-> OpRegister(<<"r","3">>),
    acc |-> OpRegister(<<"a">>),
    R1upper |-> OpRegister(<<"R","1">>),
    ind_r0 |-> OpRegister(<<"%","r","0">>),
    ind_r1 |-> OpRegister(<<"%","r","1">>),
    ind_r2 |-> OpRegister(<<"%","r","2">>),
    bad_reg |-> OpRegister(<<"z","z">>),
    mem5 |-> OpMemory(<<"%","5">>),
    mem5hex |-> OpMemory(<<"%","0","X","0","5">>),
    mem7 |-> OpMemory(<<"%","7">>),
    mem255 |-> OpMemory(<<"%","0","x","f","f">>),
    mem5bin |-> OpMemory(<<"%","0","B","1","0","1">>),
    mem255up |-> OpMemory(<<"%","0","x","F","F">>),
    mem255dec |-> OpMemory(<<"%","2","5","5">>),
    mem256 |-> OpMemory(<<"%","2","5","6">>),
    mem_neg |-> OpMemory(<<"%","-","1">>),
    mem_bare |-> OpMemory(<<"7">>),
    mem_r1 |-> OpMemory(<<"%","r","1">>),
    mem_r2 |-> OpMemory(<<"%","r","2">>),
    mem_r0 |-> OpMemory(<<"%","r","0">>),
    num7 |-> OpNumber(<<"7">>),
    num0 |-> OpNumber(<<"0">>),
    num1 |-> OpNumber(<<"1">>),
    num2 |-> OpNumber(<<"0","b","1","0">>),
    num_neg1 |-> OpNumber(<<"-","1">>),
    num_neg |-> OpNumber(<<"-","3">>),
    num_bad |-> OpNumber(<<"x">>),
    num_big |->
      OpNumber(<<"9","2","2","3","3","7","2","0","3","6","8","5","4","7","7","5","8","0","8">>),
    const_n |-> OpConstant(<<".","n">>),
    const_u |-> OpConstant(<<".","u">>),
    id_L |-> OpIdentifier(<<"L">>),
    id_M |-> OpIdentifier(<<"M">>),
    id_F |-> OpIdentifier(<<"F">>),
    id_G |-> OpIdentifier(<<"G">>),
    id_S |-> OpIdentifier(<<"S">>),
    str_ab |-> OpString(<<"a","b">>),
    str_hi |-> OpString(<<"h","i">>),
    str_empty |-> OpString(<<>>),
    chr_c |-> [k |-> "Character", s |-> <<"c">>] ]

\* The operands each kind of probe instruction is tried with.
pool ==
  [ ReadPool |->
        { operands.r0, operands.r1, operands.r2, operands.R1upper, operands.ind_r0,
           operands.ind_r1, operands.ind_r2, operands.bad_reg, operands.mem5, operands.mem5hex,
           operands.mem256, operands.mem_neg, operands.mem_bare, operands.mem_r1,
           operands.num7, operands.num_bad, operands.const_n, operands.const_u, operands.id_L,
           operands.str_hi, operands.chr_c },
    WritePool |->
        { operands.r3, operands.acc, operands.R1upper, operands.ind_r1, operands.ind_r0,
           operands.bad_reg, operands.mem5, operands.mem7, operands.mem255, operands.mem256,
           operands.mem_neg, operands.mem_bare, operands.mem_r1, operands.mem_r2,
           operands.mem_r0, operands.num7, operands.const_n, operands.id_L, operands.str_hi },
    SetValues |->
        { operands.num7, operands.str_hi, operands.r0, operands.mem256, operands.const_u,
           operands.ind_r1 },
    StoreValues |->
        { operands.r0, operands.r1, operands.ind_r1, operands.bad_reg, operands.num7,
           operands.mem5 },
    LoadDests |->
        { operands.r3, operands.mem7, operands.bad_reg, operands.const_n },
    ArithPool |->
        { operands.r0, operands.r1, operands.mem5, operands.mem256, operands.num7,
           operands.num_neg, operands.str_hi, operands.const_u, operands.ind_r1 },
    CmpPool |->
        { operands.r0, operands.r1, operands.num7, operands.mem256, operands.str_ab },
    JumpTargets |->
        { operands.id_L, operands.id_M, operands.r0, operands.mem256 },
    SmallNumbers |->
        { operands.num0, operands.num1, operands.num2, operands.num_neg1 },
    TextPool |->
        { operands.r0, operands.str_hi, operands.chr_c, operands.str_empty } ]

Probes ==
  { Set(v, d) : v \in pool.SetValues, d \in pool.WritePool }
  \cup { Mov(v, d) : v \in pool.SetValues, d \in pool.WritePool }
  \cup { Load(v, d) : v \in pool.ReadPool, d \in pool.LoadDests }
  \cup { Store(v, d) : v \in pool.StoreValues, d \in pool.WritePool }
  \cup { Add(l, r) : l \in pool.ArithPool, r \in pool.ArithPool }
  \cup { Sub(l, r) : l \in pool.ArithPool, r \in pool.ArithPool }
  \cup { Mul(l, r) : l \in pool.ArithPool, r \in pool.ArithPool }
  \cup { Div(l, r) : l \in pool.ArithPool, r \in pool.ArithPool }
  \cup { And(l, r) : l \in pool.ArithPool, r \in pool.ArithPool }
  \cup { Or(l, r) : l \in pool.ArithPool, r \in pool.ArithPool }
  \cup { Xor(l, r) : l \in pool.ArithPool, r \in pool.ArithPool }
  \cup { Sub(l, r) : l \in pool.ArithPool \cup pool.TextPool, r \in pool.SmallNumbers }
  \cup { Mul(l, r) : l \in pool.ArithPool \cup pool.TextPool, r \in pool.SmallNumbers }
  \cup { Div(l, r) : l \in pool.ArithPool \cup pool.TextPool, r \in pool.SmallNumbers }
  \cup { Add(l, r) : l \in pool.TextPool, r \in pool.TextPool }
  \cup { Div(l, r) : l \in pool.TextPool, r \in pool.TextPool }
  \cup { Not(v) : v \in pool.ReadPool }
  \cup { Push(v) : v \in pool.ReadPool }
  \cup { Inc(d) : d \in pool.ReadPool \cup pool.WritePool }
  \cup { Dec(d) : d \in pool.ReadPool \cup pool.WritePool }
  \cup { Clear(d) : d \in pool.ReadPool \cup pool.WritePool }
  \cup { Pop(d) : d \in pool.ReadPool \cup pool.WritePool }
  \cup { Jmp(t) : t \in pool.JumpTargets }
  \cup { JmpIf(t, Comparison(l, e, r)) :
            t \in pool.JumpTargets, l \in pool.CmpPool, e \in ComparisonOps, r \in pool.CmpPool }
  \cup { Call(t) : t \in pool.JumpTargets }
  \cup { PopDiscard, Ret, Halt, Define(<<".","d">>, operands.mem256) }

\* The programs with control flow: an empty program, a Ret on an empty call
\* stack, and one program per comment below.
ControlPrograms ==
  { <<>>,
    << Instruction(Ret) >>,
    \* A Pop without a destination on the empty stack.
    << Instruction(PopDiscard) >>,
    \* Nested calls: the main program calls F, F calls G.
    << Instruction(Call(operands.id_F)), Instruction(Halt), Label(<<"F">>),
       Instruction(Call(operands.id_G)), Instruction(Ret), Label(<<"G">>),
       Instruction(Push(operands.num7)), Instruction(Ret) >>,
    \* A call in the last statement: its Ret returns past the end of the program.
    << Instruction(Jmp(operands.id_S)), Label(<<"F">>), Instruction(Ret), Label(<<"S">>),
       Instruction(Call(operands.id_F)) >>,
    \* Unbounded recursion.
    << Label(<<"F">>), Instruction(Push(operands.num7)), Instruction(Call(operands.id_F)) >>,
    \* A counting loop closed by a guarded jump.
    << Instruction(Set(OpNumber(<<"2">>), operands.r1)), Label(<<"L">>),
       Instruction(Dec(operands.r1)), Instruction(JmpIf(operands.id_L, Comparison(operands.r1,
       "Gt", OpNumber(<<"0">>)))), Instruction(Halt) >>,
    \* Several pushes, then pops until the stack is empty and one more.
    << Instruction(Push(operands.num7)), Instruction(Push(operands.str_hi)),
       Instruction(Push(operands.const_u)), Instruction(Pop(operands.r0)),
       Instruction(Pop(operands.mem7)), Instruction(PopDiscard), Instruction(Pop(operands.r1))
       >>,
    \* An error in the middle of a program.
    << Instruction(Set(operands.num7, operands.r0)), Instruction(Add(operands.r0,
       operands.str_hi)), Instruction(Set(operands.num7, operands.r1)) >>,
    \* A label defined twice and a constant defined after its use.
    << Instruction(Push(OpConstant(<<".","z">>))), Instruction(Jmp(operands.id_L)),
       Label(<<"L">>), Instruction(Push(operands.num7)), Label(<<"L">>),
       CompileTime(Define(<<".","z">>, operands.str_hi)), Instruction(Define(<<".","y">>,
       operands.num7)) >>,
    \* Defines of every operand kind: literals, a constant bound earlier (.b), a
    \* constant bound only later (.c), a register, a cell, an identifier, a
    \* literal beyond i64 (.x), and a name defined a second time (.a).
    << CompileTime(Define(<<".","a">>, operands.num7)),
       CompileTime(Define(<<".","b">>, OpConstant(<<".","a">>))),
       CompileTime(Define(<<".","c">>, OpConstant(<<".","z">>))),
       Instruction(Push(OpConstant(<<".","b">>))),
       CompileTime(Define(<<".","z">>, operands.str_hi)),
       CompileTime(Define(<<".","r">>, operands.r1)),
       CompileTime(Define(<<".","m">>, operands.mem5)),
       CompileTime(Define(<<".","i">>, operands.id_L)),
       CompileTime(Define(<<".","k">>, operands.chr_c)),
       CompileTime(Define(<<".","x">>, operands.num_big)),
       CompileTime(Define(<<".","a">>, operands.str_hi)),
       Instruction(Push(OpConstant(<<".","c">>))),
       Instruction(Push(OpConstant(<<".","a">>))) >>,
    \* A call of a label defined twice.
    << Instruction(Call(operands.id_L)), Instruction(Halt), Label(<<"L">>),
       Instruction(Push(operands.num7)), Label(<<"L">>), Instruction(Ret) >>,
    \* A failing operator while the accumulator holds 7.
    << Instruction(Set(operands.num7, operands.acc)),
       Instruction(Xor(operands.str_hi, operands.acc)) >>,
    \* An Inc and a Dec while the accumulator holds 7, and an Inc of the accumulator.
    << Instruction(Set(operands.num7, operands.acc)), Instruction(Inc(operands.r3)),
       Instruction(Dec(operands.mem7)), Instruction(Inc(operands.acc)) >>,
    \* Two cells written and read through address literals of different radix and
    \* letter case (test_execute_add_memory_numbers).
    << Instruction(Set(operands.num_neg, operands.mem255)),
       Instruction(Set(operands.num7, operands.mem5bin)),
       Instruction(Add(operands.mem5hex, operands.mem255up)),
       Instruction(Mov(operands.mem255dec, operands.r3)) >>,
    \* A Clear of a cell that holds a Text.
    << Instruction(Set(operands.str_hi, operands.mem7)), Instruction(Clear(operands.mem7)) >> }

\* The programs handed to parse(): the control programs, and one program per
\* probe.  A probe program first makes r0 hold a Text, r1 an in-range address,
\* r2 an out-of-range address, cell 5 a Number and the stack one value, then
\* executes the probe, and ends with a Halt and the label L.
Programs ==
  ControlPrograms \cup
  { << CompileTime(Define(<<".","n">>, OpNumber(<<"5">>))),
       Instruction(Set(operands.str_ab, operands.r0)),
       Instruction(Set(OpNumber(<<"5">>), operands.r1)),
       Instruction(Set(OpNumber(<<"3","0","0">>), operands.r2)),
       Instruction(Set(OpNumber(<<"3">>), operands.mem5)),
       Instruction(Push(OpNumber(<<"9">>))),
       Instruction(i),
       Instruction(Halt),
       Label(<<"L">>) >> : i \in Probes }

(***************************************************************************)
(* The state machine.                                                      *)
(***************************************************************************)
\* Interpreter::new
NewMachine ==
  [ registers |-> [r \in REGISTERS |-> Value_default],
    memory |-> [a \in 0..(RAM_SLOTS - 1) |-> Number(0)],
    stack |-> <<>>,
    call_stack |-> <<>>,
    pc |-> 0,
    running |-> TRUE ]

Init ==
  /\ registers = NewMachine.registers
  /\ memory = NewMachine.memory
  /\ stack = NewMachine.stack
  /\ call_stack = NewMachine.call_stack
  /\ labels = EmptyMap
  /\ constants = EmptyMap
  /\ statements = <<>>
  /\ pc = NewMachine.pc
  /\ running = NewMachine.running
  /\ parses = 0
  /\ runpc = "idle"
  /\ run_steps = 0
  /\ last = [res |-> "none", err |-> "", by |-> "none", pre |-> NewMachine]
  /\ prev = last

\* The bounds of the model: a step that would leave them is not taken.
InBounds(m) ==
  /\ Len(m.stack) <= MaxStack
  /\ Len(m.call_stack) <= MaxCalls
  /\ \A v \in {m.registers[r] : r \in DOMAIN m.registers}
              \cup {m.memory[a] : a \in DOMAIN m.memory}
              \cup {m.stack[i] : i \in 1..Len(m.stack)} :
       v.n <= MaxNum /\ 0 - v.n <= MaxNum /\ Len(v.s) <= MaxStr

\* Interpreter::parse on a program the parser accepts: the statements are
\* replaced and compile() runs over them.
Parse ==
  /\ parses = 0
  /\ runpc = "idle"
  /\ \E p \in Programs :
       /\ statements' = p
       /\ labels' = compile(p, labels, constants).labels
       /\ constants' = compile(p, labels, constants).constants
  /\ parses' = parses + 1
  /\ last' = [res |-> "none", err |-> "", by |-> "none", pre |-> NewMachine]
  /\ prev' = last'
  /\ UNCHANGED << registers, memory, stack, call_stack, pc, running, runpc, run_steps >>

\* run_iteration with the fault "the running flag is not cleared on an error".
run_iteration_keeps_running(r) == r.m

\* The handling of step's result in run(): an error clears running and breaks.
run_iteration(r) == IF r.ok THEN r.m ELSE [r.m EXCEPT !.running = FALSE]

\* A step with result r was taken by the caller `by` and left machine m.
Stepped(r, by, m) ==
  /\ InBounds(m) = TRUE
  /\ registers' = m.registers
  /\ memory' = m.memory
  /\ stack' = m.stack
  /\ call_stack' = m.call_stack
  /\ pc' = m.pc
  /\ running' = m.running
  /\ last' = [res |-> IF r.ok THEN "ok" ELSE "err", err |-> r.err, by |-> by, pre |-> Machine]
  /\ prev' = last

\* A direct call of Interpreter::step.
Step ==
  /\ runpc = "idle"
  /\ \E r \in {step(Machine)} : Stepped(r, "step", r.m)
  /\ UNCHANGED << labels, constants, statements, parses, runpc, run_steps >>

\* Interpreter::run is entered.
RunBegin ==
  /\ runpc = "idle"
  /\ runpc' = "loop"
  /\ UNCHANGED << registers, memory, stack, call_stack, labels, constants, statements,
                  pc, running, parses, run_steps, last, prev >>

\* One iteration of the while loop of run().
RunIter ==
  /\ runpc = "loop"
  /\ running
  /\ run_steps < MaxRunSteps
  /\ run_steps' = run_steps + 1
  /\ \E r \in {step(Machine)} :
       /\ Stepped(r, "run", run_iteration(r))
       /\ runpc' = IF r.ok THEN "loop" ELSE "done"
  /\ UNCHANGED << labels, constants, statements, parses >>

\* The while loop of run() finds running false and run() returns.
RunExit ==
  /\ runpc = "loop"
  /\ ~running
  /\ runpc' = "done"
  /\ UNCHANGED << registers, memory, stack, call_stack, labels, constants, statements,
                  pc, running, parses, run_steps, last, prev >>

Next == Parse \/ Step \/ RunBegin \/ RunIter \/ RunExit

Spec == Init /\ [][Next]_vars

\* The programs handed to an interpreter that is parsed several times: an
\* empty program, one that defines the labels F and S and the constant .a,
\* one that defines neither and refers to F and .a, and one that defines S
\* and .a anew.
ReparsePrograms ==
  { <<>>,
    << CompileTime(Define(<<".","a">>, operands.num7)), Instruction(Jmp(operands.id_S)),
       Label(<<"F">>), Instruction(Halt), Label(<<"S">>),
       Instruction(Push(OpConstant(<<".","a">>))), Instruction(Add(operands.num7,
       operands.str_hi)) >>,
    << Instruction(Push(OpConstant(<<".","a">>))), Instruction(Jmp(operands.id_F)) >>,
    << Label(<<"S">>), CompileTime(Define(<<".","a">>, operands.str_hi)),
       Instruction(Push(OpConstant(<<".","a">>))), Instruction(Halt) >> }

\* Interpreter::parse with the fault "parse starts the machine again".
Reparse_restarts ==
  /\ parses < MaxParses
  /\ runpc \in {"idle", "done"}
  /\ \E p \in ReparsePrograms :
       /\ statements' = p
       /\ labels' = compile(p, labels, constants).labels
       /\ constants' = compile(p, labels, constants).constants
  /\ parses' = parses + 1
  /\ runpc' = "idle"
  /\ running' = TRUE
  /\ last' = [res |-> "none", err |-> "", by |-> "none", pre |-> NewMachine]
  /\ prev' = last'
  /\ UNCHANGED << registers, memory, stack, call_stack, pc, run_steps >>

\* Interpreter::parse at any time the caller holds the interpreter: on a new
\* one, between two steps, after a run() that has returned, and after an
\* earlier parse.  The statements are replaced and compile() runs over them
\* with the tables the interpreter holds; nothing else is touched.
Reparse ==
  /\ parses < MaxParses
  /\ runpc \in {"idle", "done"}
  /\ \E p \in ReparsePrograms :
       /\ statements' = p
       /\ labels' = compile(p, labels, constants).labels
       /\ constants' = compile(p, labels, constants).constants
  /\ parses' = parses + 1
  /\ runpc' = "idle"
  /\ last' = [res |-> "none", err |-> "", by |-> "none", pre |-> NewMachine]
  /\ prev' = last'
  /\ UNCHANGED << registers, memory, stack, call_stack, pc, running, run_steps >>

\* An interpreter whose owner calls parse, step and run in any order.
ReparseSpec == Init /\ [][Reparse \/ Step \/ RunBegin \/ RunIter \/ RunExit]_vars

\* What every iteration of the loop of run() does to the iteration count.
RunIterCounted ==
  /\ runpc = "loop"
  /\ running
  /\ run_steps < MaxRunSteps
  /\ run_steps' = run_steps + 1

\* run() is sequential code: while the loop condition holds, the next
\* iteration is made.  Only RunIter changes run_steps, so a step that
\* satisfies RunIterCounted is a step of RunIter.
LiveSpec == Spec /\ WF_run_steps(RunIterCounted)

(***************************************************************************)
(* Properties.  `last` describes the latest step (its result and the       *)
(* machine before it) and `prev` the step before that one.                 *)
(***************************************************************************)
LastOk == last.res = "ok"

LastErr == last.res = "err"

\* The latest step fetched a statement (its pc was below the number of statements).
LastFetched == last.res # "none" /\ last.pre.pc < Len(statements)

LastStmt == statements[last.pre.pc + 1]

LastInstr == LastStmt.instr

\* The latest step executed an instruction of opcode op.
LastIs(op) == LastFetched /\ LastStmt.kind = "Instruction" /\ LastInstr.op = op

PrevInstr == statements[prev.pre.pc + 1].instr

\* The step before the latest one executed an instruction of opcode op.
PrevIs(op) ==
  /\ prev.res # "none"
  /\ prev.pre.pc < Len(statements)
  /\ statements[prev.pre.pc + 1].kind = "Instruction"
  /\ PrevInstr.op = op

\* Registers, memory, both stacks and pc are what they were before the latest step.
Untouched ==
  /\ registers = last.pre.registers
  /\ memory = last.pre.memory
  /\ stack = last.pre.stack
  /\ call_stack = last.pre.call_stack
  /\ pc = last.pre.pc

\* Statement i is a Call.
IsCall(i) ==
  /\ i >= 0
  /\ i < Len(statements)
  /\ statements[i + 1].kind = "Instruction"
  /\ statements[i + 1].instr.op = "Call"

\* The latest step executed a Jmp or Call whose target is a label of the table.
TargetExists == LastInstr.x.k = "Identifier" /\ LastInstr.x.s \in DOMAIN labels

\* The two sides of the latest Jmp's guard, resolved in the machine before the step.
GuardLeft == get_operand_value(last.pre, LastInstr.cmp.left)

GuardRight == get_operand_value(last.pre, LastInstr.cmp.right)

GuardSameVariant == GuardLeft.some /\ GuardRight.some /\ GuardLeft.v.t = GuardRight.v.t

GuardTrue == Value_compare(GuardLeft.v, GuardRight.v, LastInstr.cmp.equality).b

\* C1: a Call at index i whose label exists pushes i on the call stack and sets
\* pc to the label's index; the Ret that pops an entry i sets pc to i + 1, the
\* statement right after that Call; every entry of the call stack is the index
\* of a Call, and Ret always removes the newest entry, so nested calls return
\* in the reverse order of the calls.
C1_CallRetBalance ==
  /\ \A k \in 1..Len(call_stack) : IsCall(call_stack[k])
  /\ (LastIs("Call") /\ TargetExists) =>
       /\ LastOk
       /\ call_stack = Append(last.pre.call_stack, last.pre.pc)
       /\ pc = labels[LastInstr.x.s]
  /\ (LastIs("Ret") /\ LastOk) =>
       /\ last.pre.call_stack # <<>>
       /\ call_stack = SubSeq(last.pre.call_stack, 1, Len(last.pre.call_stack) - 1)
       /\ pc = last.pre.call_stack[Len(last.pre.call_stack)] + 1
       /\ IsCall(pc - 1)

\* The inner Ret of two nested calls has returned to the statement after the
\* inner Call and the outer Call's entry is still on the call stack.
C1_InnerReturn ==
  /\ LastIs("Ret")
  /\ LastOk
  /\ Len(last.pre.call_stack) = 2
  /\ Len(call_stack) = 1
  /\ pc = last.pre.call_stack[2] + 1
  /\ pc # call_stack[1] + 1

\* C2: a Jmp whose label exists: unguarded, it sets pc to the label's index;
\* guarded by a comparison of two resolved operands of the same variant, it
\* sets pc to the label's index when the guard is true and to the old pc + 1
\* (one increment, not two) when the guard is false.
C2_JmpSetsPc ==
  (LastIs("Jmp") /\ TargetExists) =>
    IF ~LastInstr.opt
      THEN LastOk /\ pc = labels[LastInstr.x.s]
      ELSE GuardSameVariant =>
             /\ LastOk
             /\ pc = IF GuardTrue THEN labels[LastInstr.x.s] ELSE last.pre.pc + 1

\* A guarded Jmp whose guard was false has moved pc to the next statement,
\* which is not the label.
C2_UntakenBranch ==
  /\ LastIs("Jmp")
  /\ TargetExists
  /\ LastInstr.opt
  /\ GuardSameVariant
  /\ ~GuardTrue
  /\ LastOk
  /\ pc = last.pre.pc + 1
  /\ labels[LastInstr.x.s] # pc

\* C3: a successful step on a Label, a CompileTime statement or an instruction
\* other than Jmp, Call, Ret and Halt sets pc to the old pc + 1; Call, Ret and a
\* taken Jmp leave pc at the value the handler set, and Halt leaves pc unchanged.
C3_PcDiscipline ==
  (LastFetched /\ LastOk) =>
    CASE LastStmt.kind \in {"Label", "CompileTime"} -> pc = last.pre.pc + 1
      [] LastStmt.kind = "Instruction" /\ LastInstr.op = "Halt" -> pc = last.pre.pc
      [] LastStmt.kind = "Instruction" /\ LastInstr.op = "Call" -> pc = labels[LastInstr.x.s]
      [] LastStmt.kind = "Instruction" /\ LastInstr.op = "Ret" ->
           pc = last.pre.call_stack[Len(last.pre.call_stack)] + 1
      [] LastStmt.kind = "Instruction" /\ LastInstr.op = "Jmp" ->
           IF ~LastInstr.opt \/ GuardTrue
             THEN pc = labels[LastInstr.x.s]
             ELSE pc = last.pre.pc + 1
      [] OTHER -> pc = last.pre.pc + 1

\* A Halt instruction was executed below the end of the program and pc stayed
\* on it, after a Label had been stepped over.
C3_HaltStays ==
  /\ LastIs("Halt")
  /\ LastOk
  /\ pc = last.pre.pc
  /\ pc > 0
  /\ ~running

\* The read side of instruction i fails in machine m: one of the operands it
\* reads does not resolve, or the operator rejects the resolved values.
Unresolved(m, operand) == ~get_operand_value(m, operand).some

OperatorName(op) ==
  CASE op \in {"Add", "Inc"} -> "add"
    [] op \in {"Sub", "Dec"} -> "sub"
    [] op = "Mul" -> "mul"
    [] op = "Div" -> "div"
    [] op = "And" -> "and"
    [] op = "Or" -> "or"
    [] op = "Xor" -> "xor"

ReadSideFails(m, i) ==
  CASE i.op \in {"Set", "Mov"} -> Unresolved(m, i.x)
    [] i.op = "Store" -> i.x.k = "Register" /\ Unresolved(m, i.x)
    [] i.op = "Load" -> i.x.k \in {"Memory", "Number", "Register"} /\ ~load_source(m, i.x).ok
    [] i.op \in {"Add", "Sub", "Mul", "Div", "And", "Or", "Xor"} ->
         \/ Unresolved(m, i.x)
         \/ Unresolved(m, i.y)
         \/ ~apply_operator(OperatorName(i.op), get_operand_value(m, i.x).v,
                            get_operand_value(m, i.y).v).ok
    [] i.op \in {"Inc", "Dec"} ->
         \/ Unresolved(m, i.x)
         \/ ~apply_operator(OperatorName(i.op), get_operand_value(m, i.x).v, Number(1)).ok
    [] i.op = "Not" -> Unresolved(m, i.x) \/ ~Value_not(get_operand_value(m, i.x).v).ok
    [] i.op = "Jmp" ->
         /\ i.x.k = "Identifier"
         /\ i.x.s \in DOMAIN labels
         /\ i.opt
         /\ \/ Unresolved(m, i.cmp.left)
            \/ Unresolved(m, i.cmp.right)
            \/ ~Value_compare(get_operand_value(m, i.cmp.left).v,
                              get_operand_value(m, i.cmp.right).v, i.cmp.equality).ok
    [] OTHER -> FALSE

\* C4: in run(), the first step that fails clears the running flag and is the
\* last step: run() is left, and no step ever follows a failed step of run().
C4_RunStopsAtFirstFailure ==
  /\ (last.by = "run" /\ LastErr) => (~running /\ runpc = "done")
  /\ ~(prev.by = "run" /\ prev.res = "err")

\* run() executed at least two steps and the latest one failed.
C4_RunFailed ==
  /\ last.by = "run"
  /\ LastErr
  /\ prev.by = "run"
  /\ prev.res = "ok"
  /\ last.pre.running
  /\ ~running

\* C5: a step that fails because the read side of its instruction fails leaves
\* registers, memory, the value stack, the call stack and pc as they were.
C5_FailedReadNoWrite ==
  (LastFetched /\ LastStmt.kind = "Instruction" /\ LastErr
     /\ ReadSideFails(last.pre, LastInstr)) => Untouched

\* An arithmetic instruction failed on its second operand after its first
\* operand had resolved.
C5_SecondOperandFailed ==
  /\ LastIs("Add")
  /\ LastErr
  /\ ~Unresolved(last.pre, LastInstr.x)
  /\ Unresolved(last.pre, LastInstr.y)
  /\ get_operand_value(last.pre, LastInstr.x).v # last.pre.registers[ACC]
  /\ Untouched

\* The operands instruction i carries.
OperandsOf(i) ==
  {i.x, i.y} \cup (IF i.op = "Jmp" /\ i.opt THEN {i.cmp.left, i.cmp.right} ELSE {})

\* The address text of a Memory operand in machine m: the text without its
\* marker, or the Number held by the register of that name.
AddressText(m, operand) ==
  redirect(strip_marker(operand.s), get_register(m, strip_marker(operand.s)))

\* The operand is a Memory operand whose address is negative or beyond the memory.
OutOfRange(m, operand) ==
  /\ operand.k = "Memory"
  /\ convert_string_to_num(AddressText(m, operand)).ok
  /\ \/ convert_string_to_num(AddressText(m, operand)).n < 0
     \/ convert_string_to_num(AddressText(m, operand)).n >= RAM_SLOTS

\* The latest step executed an instruction with an out-of-range Memory operand.
LastOutOfRange ==
  /\ LastFetched
  /\ LastStmt.kind = "Instruction"
  /\ \E o \in OperandsOf(LastInstr) : OutOfRange(last.pre, o)

\* C6 as stated: every instruction with a Memory operand whose address is
\* negative or >= 256 fails, whatever its opcode (Push included), and memory
\* is not written.
C6_OutOfRangeAlwaysFails == LastOutOfRange => (LastErr /\ memory = last.pre.memory)

\* C6 amended: an instruction other than Push and Define with a Memory operand
\* whose address is negative or >= 256 fails and memory is not written; Push
\* with such an operand succeeds and pushes the default value Number(0), and
\* Define succeeds without resolving its operand; both leave memory and the
\* registers as they were.
C6_OutOfRangeFailsExceptPush ==
  LastOutOfRange =>
    CASE LastInstr.op = "Push" ->
           /\ LastOk
           /\ stack = Append(last.pre.stack, Number(0))
           /\ memory = last.pre.memory
           /\ registers = last.pre.registers
      [] LastInstr.op = "Define" ->
           /\ LastOk
           /\ stack = last.pre.stack
           /\ memory = last.pre.memory
           /\ registers = last.pre.registers
      [] OTHER -> LastErr /\ memory = last.pre.memory

\* A Set whose value resolved and whose destination is an out-of-range Memory
\* operand has failed.
C6_SetOutOfRange ==
  /\ LastIs("Set")
  /\ ~Unresolved(last.pre, LastInstr.x)
  /\ OutOfRange(last.pre, LastInstr.y)
  /\ LastErr
  /\ memory = last.pre.memory

\* The name of register r with the addressing marker.
Marked(r) == << "%" >> \o r

\* Register r holds a Number that is a memory address.
HoldsAddress(r) ==
  /\ registers[r].t = "Number"
  /\ registers[r].n >= 0
  /\ registers[r].n < RAM_SLOTS

\* C7 as stated: resolving a Register operand with the marker gives the value
\* of the memory cell the register's Number addresses, and fails when the
\* register holds a Text.
C7_IndirectReadResolves ==
  \A r \in REGISTERS :
    /\ HoldsAddress(r) =>
         get_operand_value(Machine, OpRegister(Marked(r))) = Some(memory[registers[r].n])
    /\ registers[r].t = "String" => Unresolved(Machine, OpRegister(Marked(r)))

\* A Mov from a marked register that holds the address of a cell has failed.
C7_IndirectReadFailed ==
  /\ LastIs("Mov")
  /\ LastInstr.x = operands.ind_r1
  /\ LastInstr.y = operands.r3
  /\ last.pre.registers[<<"r","1">>] = Number(5)
  /\ last.pre.memory[5] = Number(3)
  /\ LastErr

\* C8 as stated: writing through a Register operand with the marker stores the
\* value in the memory cell the register's Number addresses and leaves the
\* registers unchanged.
C8_IndirectWriteStores ==
  \A r \in REGISTERS :
    HoldsAddress(r) =>
      /\ set_operand_value(Machine, OpRegister(Marked(r)), String(<<"v">>)).ok
      /\ set_operand_value(Machine, OpRegister(Marked(r)), String(<<"v">>)).m.memory[registers[r].n]
           = String(<<"v">>)
      /\ set_operand_value(Machine, OpRegister(Marked(r)), String(<<"v">>)).m.registers = registers

\* A Set of a resolved value to a marked register that holds the address of a
\* cell has failed.
C8_IndirectWriteFailed ==
  /\ LastIs("Set")
  /\ LastInstr.x = operands.num7
  /\ LastInstr.y = operands.ind_r1
  /\ last.pre.registers[<<"r","1">>] = Number(5)
  /\ LastErr
  /\ Untouched

\* C9 as stated: after a successful Set of v to a Register or Memory operand,
\* resolving that operand gives v.
C9_SetThenRead ==
  (LastIs("Set") /\ LastOk /\ LastInstr.y.k \in {"Register", "Memory"}) =>
    get_operand_value(Machine, LastInstr.y) = Some(get_operand_value(last.pre, LastInstr.x).v)

\* A Set to a Memory operand that names a register has succeeded and stored the
\* value in the cell the register addresses, and the operand does not resolve.
C9_WrittenNotReadable ==
  /\ LastIs("Set")
  /\ LastOk
  /\ LastInstr.x = operands.num7
  /\ LastInstr.y = operands.mem_r1
  /\ memory[5] = Number(7)
  /\ Unresolved(Machine, LastInstr.y)

\* Writing v to dest would change nothing: dest holds v.
DestHolds(dest, v) == set_operand_value(Machine, dest, v) = MOk(Machine)

\* The value the Push before the latest step pushed.
PrevPushed == unwrap_or_default(get_operand_value(prev.pre, PrevInstr.x))

\* C10: a Push puts its value on top of the value stack and a successful
\* Pop(dest) removes the top and leaves it in dest, so values come back in LIFO
\* order; a Push(v) followed immediately by a successful Pop(dest) leaves v in
\* dest and the value stack as it was before the Push.
C10_PushPopLifo ==
  /\ (LastIs("Push") /\ LastOk) =>
       stack = Append(last.pre.stack,
                      unwrap_or_default(get_operand_value(last.pre, LastInstr.x)))
  /\ (LastIs("Pop") /\ LastOk) =>
       /\ last.pre.stack # <<>>
       /\ stack = SubSeq(last.pre.stack, 1, Len(last.pre.stack) - 1)
       /\ LastInstr.opt => DestHolds(LastInstr.x, last.pre.stack[Len(last.pre.stack)])
  /\ (PrevIs("Push") /\ prev.res = "ok" /\ LastIs("Pop") /\ LastOk /\ LastInstr.opt) =>
       /\ stack = prev.pre.stack
       /\ DestHolds(LastInstr.x, PrevPushed)

\* A Pop(dest) right after a Push took the pushed value off a stack that
\* still holds two older values.
C10_PopAfterPush ==
  /\ PrevIs("Push")
  /\ prev.res = "ok"
  /\ LastIs("Pop")
  /\ LastOk
  /\ LastInstr.opt
  /\ Len(stack) = 2
  /\ stack = prev.pre.stack
  /\ stack[2] # PrevPushed
  /\ DestHolds(LastInstr.x, PrevPushed)

\* The running flag after the latest step is what the step left: a direct call
\* of step leaves the flag the handler left, and run() clears it on a failure.
RunningKept == last.by = "step" => running = last.pre.running

\* C11: a Pop, with or without a destination, executed on the empty value stack
\* fails and leaves the value stack empty and the registers, the memory, the
\* call stack and pc unchanged.
C11_PopEmptyFails ==
  (LastIs("Pop") /\ last.pre.stack = <<>>) =>
    /\ LastErr
    /\ last.err = "Stack is empty, cannot pop"
    /\ stack = <<>>
    /\ Untouched
    /\ RunningKept

\* A Pop with a writable destination failed on the empty stack after three
\* pushes and three pops.
C11_PopEmptyWithDest ==
  /\ LastIs("Pop")
  /\ LastInstr.opt
  /\ LastInstr.x = operands.r1
  /\ PrevIs("Pop")
  /\ prev.res = "ok"
  /\ last.pre.stack = <<>>
  /\ LastErr

\* C12: a Ret executed on the empty call stack fails and leaves pc, the call
\* stack and the rest of the machine unchanged.
C12_RetEmptyFails ==
  (LastIs("Ret") /\ last.pre.call_stack = <<>>) =>
    /\ LastErr
    /\ call_stack = <<>>
    /\ Untouched
    /\ RunningKept

\* A Ret failed on the empty call stack in the middle of a program.
C12_RetEmpty ==
  /\ LastIs("Ret")
  /\ last.pre.call_stack = <<>>
  /\ last.pre.pc > 0
  /\ last.pre.stack # <<>>
  /\ LastErr
  /\ pc = last.pre.pc

\* The guard of the latest Jmp compares a Number with a Text, in either order.
GuardMixed == GuardLeft.some /\ GuardRight.some /\ GuardLeft.v.t # GuardRight.v.t

\* C13: a Jmp whose guard compares a Number with a Text fails, whatever the
\* comparison operator and the order of the operands: pc is neither set to the
\* label nor advanced, and when the target label exists the failure is the
\* comparison's type mismatch.
C13_MixedGuardFails ==
  (LastIs("Jmp") /\ LastInstr.opt /\ GuardMixed) =>
    /\ LastErr
    /\ pc = last.pre.pc
    /\ Untouched
    /\ TargetExists => last.err = "Invalid comparison"

\* A Jmp to an existing label guarded by "Text # Number" has failed and pc is
\* still on the Jmp.
C13_NeMixed ==
  /\ LastIs("Jmp")
  /\ TargetExists
  /\ LastInstr.opt
  /\ LastInstr.cmp.equality = "Ne"
  /\ GuardLeft.some
  /\ GuardLeft.v.t = "String"
  /\ GuardRight.some
  /\ GuardRight.v.t = "Number"
  /\ LastErr
  /\ pc = last.pre.pc
  /\ pc # labels[LastInstr.x.s]

\* The step described by history record h was taken with pc at or past the end
\* of the program.
PastEnd(h) == h.res # "none" /\ h.pre.pc >= Len(statements)

\* C14: a step taken with pc >= the number of statements succeeds, clears the
\* running flag and changes nothing else; in run() no step follows it, so the
\* loop ends as after a Halt.
C14_ImplicitHalt ==
  /\ PastEnd(last) => (LastOk /\ ~running /\ Untouched)
  /\ ~(PastEnd(prev) /\ prev.by = "run")

\* run() made a Ret that returned past the last statement and then the step
\* that halts.
C14_HaltAfterReturn ==
  /\ PastEnd(last)
  /\ last.by = "run"
  /\ PrevIs("Ret")
  /\ prev.res = "ok"
  /\ Len(statements) > 0
  /\ last.pre.running
  /\ ~running
  /\ runpc = "loop"

\* The opcodes whose result goes to the accumulator.
AccumulatorOps == {"Add", "Sub", "Mul", "Div", "And", "Or", "Xor", "Not"}

\* The latest step executed one of the accumulator opcodes.
LastIsArithmetic ==
  LastFetched /\ LastStmt.kind = "Instruction" /\ LastInstr.op \in AccumulatorOps

\* C15: a successful Add, Sub, Mul, Div, And, Or, Xor or Not changes no register
\* other than the accumulator a (its operand registers included), no memory
\* cell, and neither stack.
C15_OnlyAccumulatorChanges ==
  (LastIsArithmetic /\ LastOk) =>
    /\ \A r \in REGISTERS \ {ACC} : registers[r] = last.pre.registers[r]
    /\ DOMAIN registers = REGISTERS
    /\ memory = last.pre.memory
    /\ stack = last.pre.stack
    /\ call_stack = last.pre.call_stack

\* A Sub of a register and a memory cell succeeded and changed the accumulator:
\* the register and the cell kept their values.
C15_SubRegisterCell ==
  /\ LastIs("Sub")
  /\ LastOk
  /\ LastInstr.x = operands.r1
  /\ LastInstr.y = operands.mem5
  /\ registers[ACC] = Number(2)
  /\ last.pre.registers[ACC] = Number(0)
  /\ registers[<<"r","1">>] = Number(5)
  /\ memory[5] = Number(3)

\* The first and second operand of the latest instruction, resolved in the
\* machine before the step.
LeftValue == get_operand_value(last.pre, LastInstr.x)

RightValue == get_operand_value(last.pre, LastInstr.y)

\* Both operands of the latest instruction resolved to Numbers.
BothNumbers ==
  LeftValue.some /\ RightValue.some /\ LeftValue.v.t = "Number" /\ RightValue.v.t = "Number"

\* Both operands of the latest instruction resolved to Texts.
BothTexts ==
  LeftValue.some /\ RightValue.some /\ LeftValue.v.t = "String" /\ RightValue.v.t = "String"

\* The first operand resolved to a Text and the second to a Number.
TextAndNumber ==
  LeftValue.some /\ RightValue.some /\ LeftValue.v.t = "String" /\ RightValue.v.t = "Number"

\* q is l / r truncated toward zero (r > 0): the remainder l - q * r is smaller
\* than r in magnitude and has the sign of l.
IsTruncatedQuotient(q, l, r) ==
  /\ l - q * r < r
  /\ q * r - l < r
  /\ l >= 0 => l - q * r >= 0
  /\ l <= 0 => l - q * r <= 0

\* C16: a Div of two Numbers succeeds exactly when the denominator is strictly
\* positive, and then the accumulator holds the quotient truncated toward zero;
\* with a zero or negative denominator the step fails and the accumulator (like
\* the rest of the machine) keeps its value.
C16_DivPositiveDenominator ==
  (LastIs("Div") /\ BothNumbers) =>
    IF RightValue.v.n > 0
      THEN /\ LastOk
           /\ registers[ACC].t = "Number"
           /\ IsTruncatedQuotient(registers[ACC].n, LeftValue.v.n, RightValue.v.n)
      ELSE /\ LastErr
           /\ last.err = "Division denominator is zero"
           /\ registers[ACC] = last.pre.registers[ACC]
           /\ Untouched

\* A Div of -3 by 2 left -1 (not the floor, -2) in the accumulator.
C16_NegativeNumerator ==
  /\ LastIs("Div")
  /\ BothNumbers
  /\ LeftValue.v.n = -3
  /\ RightValue.v.n = 2
  /\ LastOk
  /\ registers[ACC] = Number(-1)

\* Bit k (k in 0..10) of the two's-complement representation of x, for x in
\* -2048..2047: adding 2048 leaves the low eleven bits as they are.
Bit(x, k) == ((x + 2048) \div (2 ^ k)) % 2

AndTable == << <<0, 0>>, <<0, 1>> >>

OrTable == << <<0, 1>>, <<1, 1>> >>

XorTable == << <<0, 1>>, <<1, 0>> >>

\* The truth table of a bitwise operator, indexed by bit + 1.
TableOf(op) == IF op = "And" THEN AndTable ELSE IF op = "Or" THEN OrTable ELSE XorTable

\* v is the Number whose low eleven bits (bit 10 standing for the sign) are the
\* operator applied bit by bit to l and r.
IsBitwiseOf(v, l, r, op) ==
  /\ v.t = "Number"
  /\ v.n \in -1024 .. 1023
  /\ \A k \in 0 .. 10 : Bit(v.n, k) = TableOf(op)[Bit(l, k) + 1][Bit(r, k) + 1]

\* C17: with Number operands the accumulator receives l + r for Add, l - r for
\* Sub, l * r for Mul, the bitwise and / or / xor of the two for And / Or / Xor,
\* and Not of a Number x leaves -x - 1.
C17_NumberArithmetic ==
  /\ (LastIs("Add") /\ BothNumbers) =>
       (LastOk /\ registers[ACC] = Number(LeftValue.v.n + RightValue.v.n))
  /\ (LastIs("Sub") /\ BothNumbers) =>
       (LastOk /\ registers[ACC] = Number(LeftValue.v.n - RightValue.v.n))
  /\ (LastIs("Mul") /\ BothNumbers) =>
       (LastOk /\ registers[ACC] = Number(LeftValue.v.n * RightValue.v.n))
  /\ \A op \in {"And", "Or", "Xor"} :
       (LastIs(op) /\ BothNumbers) =>
         (LastOk /\ IsBitwiseOf(registers[ACC], LeftValue.v.n, RightValue.v.n, op))
  /\ (LastIs("Not") /\ LeftValue.some /\ LeftValue.v.t = "Number") =>
       (LastOk /\ registers[ACC] = Number(0 - LeftValue.v.n - 1))

\* A Not of 7 left -8 in the accumulator.
C17_NotOfSeven ==
  /\ LastIs("Not")
  /\ LeftValue.some
  /\ LeftValue.v = Number(7)
  /\ LastOk
  /\ registers[ACC] = Number(-8)

\* r is t without its first n characters (n >= 0) or without its last -n
\* characters (n < 0), and empty when as many characters as t has, or more, go.
IsTrimmed(r, t, n) ==
  /\ Len(r) = IF abs(n) >= Len(t) THEN 0 ELSE Len(t) - abs(n)
  /\ \A i \in 1 .. Len(r) : r[i] = IF n >= 0 THEN t[i + n] ELSE t[i]

\* C18: Sub of a Text t and a Number n succeeds and leaves in the accumulator t
\* without its first n characters when n >= 0, without its last |n| characters
\* when n < 0, and the empty Text when |n| reaches the length of t.
C18_SubTrimsText ==
  (LastIs("Sub") /\ TextAndNumber) =>
    /\ LastOk
    /\ registers[ACC].t = "String"
    /\ IsTrimmed(registers[ACC].s, LeftValue.v.s, RightValue.v.n)

\* A Sub of "ab" and -1 left "a" in the accumulator.
C18_SubNegativeCount ==
  /\ LastIs("Sub")
  /\ TextAndNumber
  /\ LeftValue.v.s = <<"a", "b">>
  /\ RightValue.v.n = -1
  /\ LastOk
  /\ registers[ACC] = String(<<"a">>)

\* The first operand resolved to a Number and the second to a Text.
NumberAndText ==
  LeftValue.some /\ RightValue.some /\ LeftValue.v.t = "Number" /\ RightValue.v.t = "String"

\* t written n times in a row; nothing when n <= 0.
RECURSIVE Repeated(_, _)
Repeated(t, n) == IF n <= 0 THEN <<>> ELSE t \o Repeated(t, n - 1)

\* C19: Mul of a Text t on the left and a Number n on the right succeeds and
\* leaves t repeated n times in the accumulator, the empty Text when n <= 0;
\* with the Number on the left and the Text on the right the step fails.
C19_MulRepeatsText ==
  /\ (LastIs("Mul") /\ TextAndNumber) =>
       (LastOk /\ registers[ACC] = String(Repeated(LeftValue.v.s, RightValue.v.n)))
  /\ (LastIs("Mul") /\ NumberAndText) =>
       (LastErr /\ last.err = "Invalid multiplication between number and string" /\ Untouched)

\* A Mul of "ab" and 3 left "ababab" in the accumulator.
C19_MulThreeTimes ==
  /\ LastIs("Mul")
  /\ TextAndNumber
  /\ LeftValue.v.s = <<"a", "b">>
  /\ RightValue.v.n = 3
  /\ LastOk
  /\ registers[ACC] = String(<<"a", "b", "a", "b", "a", "b">>)

\* r is l followed by r2: as long as both together, l first.
IsJoined(r, l, r2) ==
  /\ Len(r) = Len(l) + Len(r2)
  /\ \A i \in 1 .. Len(l) : r[i] = l[i]
  /\ \A i \in 1 .. Len(r2) : r[Len(l) + i] = r2[i]

\* C20: with two Text operands Add succeeds and leaves the left text followed
\* by the right one in the accumulator; Div succeeds and leaves the Number
\* (length of left - length of right), zero and negative included, and never
\* a division error, even when the right text is empty.
C20_TextAddDiv ==
  /\ (LastIs("Add") /\ BothTexts) =>
       /\ LastOk
       /\ registers[ACC].t = "String"
       /\ IsJoined(registers[ACC].s, LeftValue.v.s, RightValue.v.s)
  /\ (LastIs("Div") /\ BothTexts) =>
       /\ LastOk
       /\ registers[ACC] = Number(Len(LeftValue.v.s) - Len(RightValue.v.s))

\* An Add of "ab" and "Hi" left "abHi" in the accumulator.
C20_AddTwoTexts ==
  /\ LastIs("Add")
  /\ BothTexts
  /\ Len(LeftValue.v.s) = 2
  /\ Len(RightValue.v.s) = 2
  /\ LeftValue.v.s # RightValue.v.s
  /\ LastOk
  /\ registers[ACC] = String(LeftValue.v.s \o RightValue.v.s)

\* Some operand of the latest instruction resolved to a Text.
SomeText == LeftValue.v.t = "String" \/ RightValue.v.t = "String"

\* The latest instruction applied an operator to a combination of variants
\* its table does not list.
OperatorMismatch ==
  \/ /\ LastIs("Add") \/ LastIs("Div")
     /\ LeftValue.some /\ RightValue.some
     /\ LeftValue.v.t # RightValue.v.t
  \/ /\ LastIs("Sub") \/ LastIs("Mul")
     /\ LeftValue.some /\ RightValue.some
     /\ RightValue.v.t = "String"
  \/ /\ LastIs("And") \/ LastIs("Or") \/ LastIs("Xor")
     /\ LeftValue.some /\ RightValue.some
     /\ SomeText
  \/ /\ LastIs("Not")
     /\ LeftValue.some
     /\ LeftValue.v.t = "String"

\* The errors the Value operators return for operands of the wrong variants.
MismatchErrors ==
  { "Cannot add Number and String", "Invalid subtraction",
    "Invalid multiplication between number and string",
    "Invalid division between number and string",
    "Invalid 'and'. Both arguments must be numbers",
    "Invalid 'and'. Both arguments must be numbers.",
    "Invalid 'xor'. Both arguments must be numbers.",
    "Invalid 'not'. Must be a number" }

\* C21: an operator applied to a combination of variants outside its table (Add
\* of Number with Text in either order, Sub or Mul with a Text on the right, Div
\* of Number with Text in either order, And / Or / Xor / Not with a Text
\* operand) fails with the operator's mismatch error and leaves the accumulator,
\* like the rest of the machine, unchanged.
C21_OperatorMismatchFails ==
  OperatorMismatch =>
    /\ LastErr
    /\ last.err \in MismatchErrors
    /\ registers[ACC] = last.pre.registers[ACC]
    /\ Untouched

\* An Xor of a Text and a Number failed while the accumulator held 7, and the
\* accumulator still holds 7.
C21_XorWithText ==
  /\ LastIs("Xor")
  /\ TextAndNumber
  /\ last.pre.registers[ACC] = Number(7)
  /\ LastErr
  /\ registers[ACC] = Number(7)

\* The operand is a Register operand that names a register of the machine.
NamesRegister(operand) == operand.k = "Register" /\ to_lowercase(operand.s) \in REGISTERS

\* The operand is a Memory operand whose address is a cell of the memory.
InRange(m, operand) ==
  /\ operand.k = "Memory"
  /\ convert_string_to_num(AddressText(m, operand)).ok
  /\ convert_string_to_num(AddressText(m, operand)).n >= 0
  /\ convert_string_to_num(AddressText(m, operand)).n < RAM_SLOTS

\* The cell a Memory operand addresses in machine m.
CellOf(m, operand) == convert_string_to_num(AddressText(m, operand)).n

\* Since the latest step, register r alone changed among registers and memory
\* cells, and it holds v.
OnlyRegisterSet(r, v) ==
  /\ registers[r] = v
  /\ \A q \in REGISTERS \ {r} : registers[q] = last.pre.registers[q]
  /\ memory = last.pre.memory

\* Since the latest step, cell n alone changed among registers and memory
\* cells, and it holds v.
OnlyCellSet(n, v) ==
  /\ memory[n] = v
  /\ \A a \in 0 .. (RAM_SLOTS - 1) : a # n => memory[a] = last.pre.memory[a]
  /\ registers = last.pre.registers

\* C22: a Clear of a register of the machine or of an in-range Memory target
\* succeeds and leaves the target holding Number(0), whatever it held, without
\* changing any other register or memory cell.
C22_ClearResetsTarget ==
  /\ (LastIs("Clear") /\ NamesRegister(LastInstr.x)) =>
       (LastOk /\ OnlyRegisterSet(to_lowercase(LastInstr.x.s), Number(0)))
  /\ (LastIs("Clear") /\ InRange(last.pre, LastInstr.x)) =>
       (LastOk /\ OnlyCellSet(CellOf(last.pre, LastInstr.x), Number(0)))

\* A Clear of a register that held a Text left Number(0) in it.
C22_ClearTextRegister ==
  /\ LastIs("Clear")
  /\ NamesRegister(LastInstr.x)
  /\ last.pre.registers[to_lowercase(LastInstr.x.s)] = String(<<"a", "b">>)
  /\ LastOk
  /\ registers[to_lowercase(LastInstr.x.s)] = Number(0)

\* The operand instruction i writes to (Push, Jmp, Call, Ret, Halt and a Pop
\* without destination have none; the arithmetic opcodes write the accumulator).
WriteTarget(i) ==
  CASE i.op \in {"Set", "Mov", "Load", "Store"} -> i.y
    [] i.op \in {"Clear", "Inc", "Dec"} -> i.x
    [] i.op = "Pop" /\ i.opt -> i.x
    [] OTHER -> NoOperand

\* The operand kinds that are not assignable.
ReadOnlyKinds == {"Constant", "Identifier", "Number", "Character", "String"}

\* The latest step executed an instruction whose write target is not assignable.
LastWritesReadOnly ==
  /\ LastFetched
  /\ LastStmt.kind = "Instruction"
  /\ WriteTarget(LastInstr).k \in ReadOnlyKinds

\* The tables the resolver pass builds for the statements loaded.
Resolved == compile(statements, EmptyMap, EmptyMap)

\* C23: an instruction whose write target is a Constant, an Identifier or a
\* literal fails and leaves registers and memory unchanged; the constant table
\* is, after any sequence of steps, the one the resolver pass built.
C23_ReadOnlyTargetFails ==
  /\ LastWritesReadOnly =>
       (LastErr /\ registers = last.pre.registers /\ memory = last.pre.memory
          /\ pc = last.pre.pc)
  /\ constants = Resolved.constants

\* An Inc of a bound constant has failed, and the constant is still bound to
\* the value its Define gave it.
C23_IncConstant ==
  /\ LastIs("Inc")
  /\ LastInstr.x = operands.const_n
  /\ LastErr
  /\ last.err = "Cannot change constant"
  /\ constants[operands.const_n.s] = Number(5)

\* Statement i (counted from 1) is a Define.
IsDefine(i) == statements[i].kind = "CompileTime"

DefineName(i) == statements[i].instr.name

DefineValue(i) == statements[i].instr.x

\* Statement i is a Define that binds its name: its value is a Character or
\* Text literal, a Number literal that converts to an integer, or a Constant
\* that a Define before statement i binds.
RECURSIVE Binds(_)
Binds(i) ==
  /\ IsDefine(i)
  /\ \/ DefineValue(i).k \in {"Character", "String"}
     \/ DefineValue(i).k = "Number" /\ convert_string_to_num(DefineValue(i).s).ok
     \/ /\ DefineValue(i).k = "Constant"
        /\ \E j \in 1 .. (i - 1) : IsDefine(j) /\ DefineName(j) = DefineValue(i).s /\ Binds(j)

\* The same with every Number literal counted as binding.
RECURSIVE BindsAnyLiteral(_)
BindsAnyLiteral(i) ==
  /\ IsDefine(i)
  /\ \/ DefineValue(i).k \in {"Number", "Character", "String"}
     \/ /\ DefineValue(i).k = "Constant"
        /\ \E j \in 1 .. (i - 1) :
             IsDefine(j) /\ DefineName(j) = DefineValue(i).s /\ BindsAnyLiteral(j)

\* C24 as stated: the constant table binds exactly the names of the Defines
\* whose value is a Number, Character or Text literal or a Constant bound by
\* an earlier Define.
C24_EveryLiteralBinds ==
  DOMAIN constants = { DefineName(i) : i \in { j \in 1 .. Len(statements) : BindsAnyLiteral(j) } }

\* C24, amended: the constant table binds exactly the names of the Defines
\* whose value is a Character or Text literal, a Number literal that converts
\* to an integer, or a Constant bound by an earlier Define; every other Define
\* (a Register, Memory or Identifier value, a Constant bound only later or
\* never, a Number literal that does not convert) inserts nothing, and the
\* Defines after it are still processed.
C24_ResolvedDefinesBind ==
  DOMAIN constants = { DefineName(i) : i \in { j \in 1 .. Len(statements) : Binds(j) } }

\* The resolver has passed over a program in which .b is defined from the
\* earlier .a, .c from the later .z, and .r from a register: .b and .z are
\* bound, .c and .r are not, and .k, defined after the dropped ones, is bound.
C24_ForwardReferenceDropped ==
  /\ parses = 1
  /\ \E i \in 1 .. Len(statements) :
       IsDefine(i) /\ DefineName(i) = <<".","c">> /\ DefineValue(i) = OpConstant(<<".","z">>)
  /\ \E i \in 1 .. Len(statements) :
       IsDefine(i) /\ DefineName(i) = <<".","r">> /\ DefineValue(i).k = "Register"
  /\ <<".","b">> \in DOMAIN constants
  /\ constants[<<".","b">>] = Number(7)
  /\ <<".","z">> \in DOMAIN constants
  /\ <<".","k">> \in DOMAIN constants
  /\ <<".","c">> \notin DOMAIN constants
  /\ <<".","r">> \notin DOMAIN constants

\* The names of the Label statements of the program.
LabelNames ==
  { statements[i].name : i \in { j \in 1 .. Len(statements) : statements[j].kind = "Label" } }

\* Statement index i (counted from 0) is the last Label statement named name.
IsLastLabel(name, i) ==
  /\ i \in 0 .. (Len(statements) - 1)
  /\ statements[i + 1].kind = "Label"
  /\ statements[i + 1].name = name
  /\ \A j \in (i + 1) .. (Len(statements) - 1) :
       ~(statements[j + 1].kind = "Label" /\ statements[j + 1].name = name)

\* The latest step was a jump that was taken or a call, and it succeeded.
LastJumped ==
  /\ LastOk
  /\ \/ LastIs("Call")
     \/ LastIs("Jmp") /\ (LastInstr.opt => GuardTrue)

\* C25: the label table holds exactly the label names of the program, each
\* mapped to the index of the last Label statement of that name, and a taken
\* Jmp or a Call sets pc to that index.
C25_LastLabelWins ==
  /\ DOMAIN labels = LabelNames
  /\ \A name \in DOMAIN labels : IsLastLabel(name, labels[name])
  /\ LastJumped => IsLastLabel(LastInstr.x.s, pc)

\* A Call of a label defined twice has set pc to the second definition.
C25_CallDuplicateLabel ==
  /\ LastIs("Call")
  /\ LastOk
  /\ \E i \in 0 .. (pc - 1) :
       statements[i + 1].kind = "Label" /\ statements[i + 1].name = LastInstr.x.s
  /\ IsLastLabel(LastInstr.x.s, pc)

\* Some Define of the program binds name.
BoundSomewhere(name) ==
  \E i \in 1 .. Len(statements) : DefineName(i) = name /\ Binds(i)

\* C26: after any sequence of steps, successful or failed, the label table and
\* the constant table are the ones the resolver pass built; a step on a Define
\* statement succeeds and only advances pc; and a constant bound by a Define
\* anywhere in the program resolves for every instruction, also for one that
\* precedes the Define.
C26_TablesFrozen ==
  /\ labels = Resolved.labels
  /\ constants = Resolved.constants
  /\ (LastFetched /\ LastStmt.kind = "CompileTime") =>
       /\ LastOk
       /\ pc = last.pre.pc + 1
       /\ registers = last.pre.registers
       /\ memory = last.pre.memory
       /\ stack = last.pre.stack
       /\ call_stack = last.pre.call_stack
       /\ running = last.pre.running
  /\ (LastIs("Push") /\ LastInstr.x.k = "Constant" /\ BoundSomewhere(LastInstr.x.s)) =>
       stack = Append(last.pre.stack, Resolved.constants[LastInstr.x.s])

\* A Push of a constant whose Define comes later in the program has pushed the
\* constant's value.
C26_ConstantBeforeDefine ==
  /\ LastIs("Push")
  /\ LastInstr.x.k = "Constant"
  /\ \A i \in 1 .. Len(statements) :
       (IsDefine(i) /\ DefineName(i) = LastInstr.x.s) => i > last.pre.pc + 1
  /\ BoundSomewhere(LastInstr.x.s)
  /\ stack = Append(last.pre.stack, String(<<"h","i">>))

\* C27: a Push always succeeds: it pushes the value its source resolves to, or
\* Number(0) when the source does not resolve; the stack grows by exactly one
\* value, pc advances by one, and nothing else changes.
C27_PushNeverFails ==
  LastIs("Push") =>
    /\ LastOk
    /\ Len(stack) = Len(last.pre.stack) + 1
    /\ SubSeq(stack, 1, Len(last.pre.stack)) = last.pre.stack
    /\ stack[Len(stack)] =
         IF LeftValue.some THEN LeftValue.v ELSE Number(0)
    /\ pc = last.pre.pc + 1
    /\ registers = last.pre.registers
    /\ memory = last.pre.memory
    /\ call_stack = last.pre.call_stack

\* A Push of an Identifier, which never resolves, has pushed Number(0) on a
\* stack that held one value.
C27_PushIdentifier ==
  /\ LastIs("Push")
  /\ LastInstr.x.k = "Identifier"
  /\ last.pre.stack # <<>>
  /\ LastOk
  /\ stack = Append(last.pre.stack, Number(0))
  /\ pc = last.pre.pc + 1

\* The latest step executed a Jmp or a Call whose target is no Identifier or
\* names a label the program does not define.
BadTarget ==
  /\ LastIs("Jmp") \/ LastIs("Call")
  /\ LastInstr.x.k # "Identifier" \/ LastInstr.x.s \notin LabelNames

\* The guard of the latest Jmp resolved on both sides and compared to false.
GuardFalse ==
  /\ LastInstr.opt
  /\ GuardLeft.some
  /\ GuardRight.some
  /\ GuardSameVariant
  /\ ~GuardTrue

\* C28: a Jmp or Call whose target is no Identifier, or names a label that is
\* not defined, fails and leaves pc and the call stack (and the rest of the
\* machine) unchanged, for a Jmp also when its guard is false.
C28_BadTargetFails ==
  BadTarget =>
    /\ LastErr
    /\ last.err \in {"Invalid target", "Label does not exist"}
    /\ pc = last.pre.pc
    /\ call_stack = last.pre.call_stack
    /\ Untouched

\* A Jmp to an undefined label whose guard is false has failed.
C28_UndefinedLabelFalseGuard ==
  /\ LastIs("Jmp")
  /\ LastInstr.x.k = "Identifier"
  /\ LastInstr.x.s \notin LabelNames
  /\ GuardFalse
  /\ LastErr
  /\ pc = last.pre.pc

\* The latest instruction's destination is a Register or Memory operand that
\* resolved to a Number before the step.
DestHeldNumber ==
  /\ LastInstr.x.k \in {"Register", "Memory"}
  /\ LeftValue.some
  /\ LeftValue.v.t = "Number"

\* Since the latest step the destination of the latest instruction holds v and
\* no other register or memory cell changed.
OnlyDestSet(v) ==
  /\ LastInstr.x.k = "Register" =>
       (NamesRegister(LastInstr.x) /\ OnlyRegisterSet(to_lowercase(LastInstr.x.s), v))
  /\ LastInstr.x.k = "Memory" =>
       (InRange(last.pre, LastInstr.x) /\ OnlyCellSet(CellOf(last.pre, LastInstr.x), v))

\* C29: an Inc (a Dec) of a Register or Memory destination that holds Number n
\* succeeds and writes n + 1 (n - 1) into the destination itself; no other
\* register or cell changes, so the accumulator changes only when it is the
\* destination.
C29_IncDecInPlace ==
  /\ (LastIs("Inc") /\ DestHeldNumber) =>
       (LastOk /\ OnlyDestSet(Number(LeftValue.v.n + 1))
          /\ stack = last.pre.stack /\ pc = last.pre.pc + 1)
  /\ (LastIs("Dec") /\ DestHeldNumber) =>
       (LastOk /\ OnlyDestSet(Number(LeftValue.v.n - 1))
          /\ stack = last.pre.stack /\ pc = last.pre.pc + 1)
  /\ ((LastIs("Inc") \/ LastIs("Dec")) /\ DestHeldNumber
        /\ to_lowercase(LastInstr.x.s) # ACC) =>
       registers[ACC] = last.pre.registers[ACC]

\* A Dec of a memory cell that held 0 left -1 in it, while the accumulator
\* held 7 and still holds 7.
C29_DecCell ==
  /\ LastIs("Dec")
  /\ LastInstr.x.k = "Memory"
  /\ LeftValue = Some(Number(0))
  /\ last.pre.registers[ACC] = Number(7)
  /\ LastOk
  /\ memory[CellOf(last.pre, LastInstr.x)] = Number(-1)
  /\ registers[ACC] = Number(7)

\* C30: a Halt succeeds, leaves the running flag cleared and changes nothing
\* else; executed in a machine that is already halted it leaves the whole
\* machine as it was.
C30_HaltIdempotent ==
  /\ LastIs("Halt") => (LastOk /\ ~running /\ Untouched)
  /\ (LastIs("Halt") /\ ~last.pre.running) => Machine = last.pre

\* A Halt was executed twice in a row, the second time in a halted machine,
\* and the machine is as the first Halt left it.
C30_HaltTwice ==
  /\ LastIs("Halt")
  /\ PrevIs("Halt")
  /\ prev.pre.running
  /\ ~last.pre.running
  /\ Machine = last.pre

\* The latest step executed an instruction whose write target is a Register
\* operand whose name, lower-cased, is not a register of the machine.
LastWritesUnknownRegister ==
  /\ LastFetched
  /\ LastStmt.kind = "Instruction"
  /\ WriteTarget(LastInstr).k \in {"Register", "IndirectMemory"}
  /\ to_lowercase(WriteTarget(LastInstr).s) \notin REGISTERS

\* C31: the register file holds exactly the ten names of REGISTERS and the
\* memory exactly RAM_SLOTS cells; a write to any other register name fails and
\* changes no register and no cell; a Set to a register name written in any
\* letter case stores the value in the slot of the lower-cased name.
C31_RegisterFileClosed ==
  /\ DOMAIN registers = REGISTERS
  /\ Cardinality(DOMAIN registers) = 10
  /\ DOMAIN memory = 0 .. (RAM_SLOTS - 1)
  /\ LastWritesUnknownRegister =>
       (LastErr /\ registers = last.pre.registers /\ memory = last.pre.memory)
  /\ (LastIs("Set") /\ NamesRegister(LastInstr.y) /\ LeftValue.some) =>
       (LastOk /\ OnlyRegisterSet(to_lowercase(LastInstr.y.s), LeftValue.v))

\* A Set to R1 has stored 7 in the register r1, which held 5.
C31_SetUpperCaseName ==
  /\ LastIs("Set")
  /\ LastInstr.y = OpRegister(<<"R", "1">>)
  /\ last.pre.registers[<<"r", "1">>] = Number(5)
  /\ LastOk
  /\ registers[<<"r", "1">>] = Number(7)
  /\ DOMAIN registers = REGISTERS

\* Address literals of the model and the integer each denotes (the cases of
\* test_convert_string_to_num, as addresses).
AddressLiterals ==
  { [s |-> <<"%","5">>, n |-> 5],
    [s |-> <<"%","0","X","0","5">>, n |-> 5],
    [s |-> <<"%","0","B","1","0","1">>, n |-> 5],
    [s |-> <<"%","0","x","f","f">>, n |-> 255],
    [s |-> <<"%","0","x","F","F">>, n |-> 255],
    [s |-> <<"%","2","5","5">>, n |-> 255] }

\* The latest step succeeded and executed an instruction whose write target
\* is the Memory operand of address literal a.
LastWroteThrough(a) ==
  /\ LastFetched
  /\ LastStmt.kind = "Instruction"
  /\ WriteTarget(LastInstr) = OpMemory(a.s)
  /\ LastOk

\* C32: Memory operands whose address literals denote the same integer name
\* the same cell: in every reachable machine a read through any literal yields
\* the content of the cell of its integer; a write through any literal changes
\* that cell and no other; and after a Set through one literal every literal
\* of the same integer reads the value set.
C32_SameIntegerSameCell ==
  \A a \in AddressLiterals :
    /\ get_address(Machine, a.s) = Ok(memory[a.n])
    /\ LastWroteThrough(a) =>
         \A c \in 0 .. (RAM_SLOTS - 1) : c # a.n => memory[c] = last.pre.memory[c]
    /\ (LastWroteThrough(a) /\ LastIs("Set")) =>
         \A b \in AddressLiterals : b.n = a.n => get_address(Machine, b.s) = Ok(LeftValue.v)

\* -3 was set through %0xff and 7 through %0B101, and an Add of %0X05 and
\* %0xFF has left 4 in the accumulator.
C32_AddAcrossSpellings ==
  /\ LastIs("Add")
  /\ LastInstr.x = OpMemory(<<"%","0","X","0","5">>)
  /\ LastInstr.y = OpMemory(<<"%","0","x","F","F">>)
  /\ PrevIs("Set")
  /\ PrevInstr.y = OpMemory(<<"%","0","B","1","0","1">>)
  /\ LastOk
  /\ registers[ACC] = Number(4)

\* The lock events of the latest step (none when it fetched no instruction).
LastLocks ==
  IF LastFetched /\ LastStmt.kind = "Instruction"
    THEN dispatch_locks(last.pre, LastInstr)
    ELSE <<>>

\* In trace t the write lock acquired at position i is still held at position j.
HeldForWrite(t, i, j) ==
  /\ i < j
  /\ t[i].e = "acquire"
  /\ t[i].mode = "write"
  /\ \A k \in (i + 1) .. (j - 1) : ~(t[k].e = "release" /\ t[k].c = t[i].c)

\* In trace t no lock of a container is acquired while the write lock of
\* another container is held.
WriteHeldAlone(t) ==
  \A j \in 1 .. Len(t), i \in 1 .. Len(t) :
    (t[j].e = "acquire" /\ HeldForWrite(t, i, j)) => t[j].c = t[i].c

\* Every acquire of trace t is followed by its release.
Balanced(t) ==
  \A i \in 1 .. Len(t) :
    t[i].e = "acquire" => \E k \in (i + 1) .. Len(t) : t[k].e = "release" /\ t[k].c = t[i].c

\* C33: in the lock events of every step, no lock of one container is acquired
\* while the write lock of another container is held (so no two containers
\* are write-locked at the same time), and every guard is dropped by the end of
\* the step.
C33_WriteLocksNotNested ==
  /\ WriteHeldAlone(LastLocks)
  /\ Balanced(LastLocks)

\* A Pop into a cell addressed through a register has succeeded: the step
\* write-locked the stack, read-locked the registers and write-locked the
\* memory, one after the other.
C33_PopIntoCell ==
  /\ LastIs("Pop")
  /\ LastOk
  /\ LastInstr.x.k = "Memory"
  /\ \E i, j, k \in 1 .. Len(LastLocks) :
       /\ i < j /\ j < k
       /\ LastLocks[i] = [e |-> "acquire", mode |-> "write", c |-> "stack"]
       /\ LastLocks[j] = [e |-> "acquire", mode |-> "read", c |-> "registers"]
       /\ LastLocks[k] = [e |-> "acquire", mode |-> "write", c |-> "memory"]
  /\ get_register(last.pre, strip_marker(LastInstr.x.s)).ok

\* The cell a Memory operand reads in get_address (the text after the '%').
CellRead(operand) == convert_string_to_num(after_prefix(operand.s, <<"%">>)).n

\* C34: a Load whose destination is not a Register operand fails, and so does
\* a Store whose value operand is not a Register operand, both without changing
\* a register or a memory cell; a Load of a Memory operand that succeeds leaves
\* the destination register equal to the addressed cell, and the memory and
\* the other registers unchanged.
C34_LoadStoreOperands ==
  /\ (LastIs("Load") /\ LastInstr.y.k # "Register") =>
       (LastErr /\ registers = last.pre.registers /\ memory = last.pre.memory)
  /\ (LastIs("Store") /\ LastInstr.x.k # "Register") =>
       (LastErr /\ registers = last.pre.registers /\ memory = last.pre.memory)
  /\ (LastIs("Load") /\ LastInstr.x.k = "Memory" /\ LastOk) =>
       /\ NamesRegister(LastInstr.y)
       /\ CellRead(LastInstr.x) \in 0 .. (RAM_SLOTS - 1)
       /\ OnlyRegisterSet(to_lowercase(LastInstr.y.s), last.pre.memory[CellRead(LastInstr.x)])

\* A Load from cell 5 into a Memory operand has failed after the cell was
\* read, and cell 7 still holds what it held.
C34_LoadIntoCell ==
  /\ LastIs("Load")
  /\ LastInstr.x = OpMemory(<<"%", "5">>)
  /\ LastInstr.y = OpMemory(<<"%", "7">>)
  /\ last.pre.memory[5] = Number(3)
  /\ LastErr
  /\ last.err = "Invalid operands used in LOAD"
  /\ memory[7] = Number(0)

\* The running flag is as the latest step left it: unchanged, or cleared by
\* run() when the step failed inside the run loop.
RunningAsStepLeft ==
  running = (last.pre.running /\ ~(LastErr /\ last.by = "run"))

\* The latest step was a Pop with a destination, on a stack that was not empty.
LastPoppedInto ==
  /\ LastIs("Pop")
  /\ LastInstr.opt
  /\ last.pre.stack # <<>>

\* C35 as stated: every step that returns a failure leaves registers, memory,
\* both stacks, pc and the running flag as they were, for every opcode.
C35_FailureIsNoOp ==
  LastErr => (Untouched /\ RunningAsStepLeft)

\* C35, amended: a step that returns a failure leaves registers, memory, both
\* stacks, pc and the running flag as they were, except a Pop whose destination
\* cannot be written: on a non-empty stack it has removed the top value when
\* it fails, and has changed nothing else.
C35_FailureIsNoOpExceptPop ==
  /\ (LastErr /\ ~LastPoppedInto) => (Untouched /\ RunningAsStepLeft)
  /\ (LastErr /\ LastPoppedInto) =>
       /\ stack = SubSeq(last.pre.stack, 1, Len(last.pre.stack) - 1)
       /\ registers = last.pre.registers
       /\ memory = last.pre.memory
       /\ call_stack = last.pre.call_stack
       /\ pc = last.pre.pc
       /\ RunningAsStepLeft

\* A Pop into a constant has failed on a stack that held one value, and the
\* stack is now empty.
C35_PopLosesValue ==
  /\ LastIs("Pop")
  /\ LastInstr.x.k = "Constant"
  /\ last.pre.stack = << Number(9) >>
  /\ LastErr
  /\ last.err = "Cannot change constant"
  /\ stack = <<>>
  /\ pc = last.pre.pc

\* C36: pc is never negative and never above the number of statements; a Call
\* or a taken Jmp leaves pc on the index of a Label statement of the program, a
\* Ret leaves it at most at the program length, every entry of the call stack
\* is the index of a statement, and a step taken with pc at the program length
\* leaves pc where it is.
C36_PcInsideProgram ==
  /\ pc \in 0 .. Len(statements)
  /\ \A k \in 1 .. Len(call_stack) : call_stack[k] \in 0 .. (Len(statements) - 1)
  /\ ((LastIs("Jmp") \/ LastIs("Call")) /\ LastOk /\ pc # last.pre.pc + 1) =>
       (pc < Len(statements) /\ statements[pc + 1].kind = "Label")
  /\ (LastIs("Ret") /\ LastOk) => (pc > 0 /\ pc <= Len(statements))
  /\ (last.res # "none" /\ last.pre.pc >= Len(statements)) =>
       (pc = last.pre.pc /\ pc = Len(statements))

\* A Ret has left pc at the program length (the Call was the last statement),
\* and the step after it has left pc there.
C36_ReturnToProgramEnd ==
  /\ PrevIs("Ret")
  /\ prev.res = "ok"
  /\ last.res = "ok"
  /\ last.pre.pc = Len(statements)
  /\ Len(statements) > 0
  /\ pc = Len(statements)

\* The program loaded contains no Jmp, Call or Ret instruction.
JumpFree ==
  \A k \in 1 .. Len(statements) :
    statements[k].kind = "Instruction" => statements[k].instr.op \notin {"Jmp", "Call", "Ret"}

\* In a program without jumps, run() has taken at most one step more than
\* there are statements, has stopped by then, and stopped through a Halt, a
\* failing step or a step at the end of the program.
RunBounded ==
  (JumpFree /\ last.by = "run") =>
    /\ run_steps <= Len(statements) + 1
    /\ run_steps = Len(statements) + 1 => ~running
    /\ ~running => (LastIs("Halt") \/ LastErr \/ PastEnd(last))

\* In a program without jumps, the next iteration of run() is never cut off
\* by a bound of the model.
RunNotCutOff ==
  (JumpFree /\ runpc = "loop" /\ running) =>
    /\ run_steps < MaxRunSteps
    /\ InBounds(run_iteration(step(Machine))) = TRUE

\* C37: for a program without Jmp, Call and Ret, the loop of run() ends: the
\* running flag becomes false, after at most (number of statements + 1) steps
\* of run(), through a Halt, a failing step or the implicit halt at the end of
\* the program.
C37_JumpFreeRunTerminates ==
  /\ []RunBounded
  /\ []RunNotCutOff
  /\ (JumpFree /\ runpc = "loop") ~> ~running

\* run() went through a program of four statements without a Halt and stopped
\* in its fifth step, the implicit halt.
C37_RanToImplicitHalt ==
  /\ JumpFree
  /\ Len(statements) = 4
  /\ last.by = "run"
  /\ run_steps = 5
  /\ pc = 4
  /\ PastEnd(last)
  /\ ~running
(***************************************************************************)
(* C38: the running flag is monotone.                                      *)
(***************************************************************************)
\* C38: the running flag starts true, and once it is false no step, no run
\* and no parse makes it true again.
C38_RunningMonotone ==
  /\ running = TRUE
  /\ [][~running => ~running']_vars

\* A halted interpreter was parsed again and a step of the new program
\* succeeded: the flag is still false.
C38_SteppedWhileHalted ==
  /\ parses >= 2
  /\ last.res = "ok"
  /\ pc > last.pre.pc
  /\ ~last.pre.running
  /\ ~running
(***************************************************************************)
(* C39: the tables after several parses.                                   *)
(***************************************************************************)
\* C39: after any sequence of parse calls the label table and the constant
\* table hold exactly the labels and the resolved Defines of the program
\* parsed last.
C39_TablesOfLatestProgram ==
  parses > 0 =>
    /\ labels = compile(statements, EmptyMap, EmptyMap).labels
    /\ constants = compile(statements, EmptyMap, EmptyMap).constants

\* The program parsed last defines neither the label F nor the constant .a;
\* its Push of .a pushed the 7 an earlier program bound, and its Jmp to F
\* went to the index F had in that program.
C39_StaleSymbolsUsed ==
  /\ parses >= 2
  /\ <<"F">> \notin DOMAIN compile(statements, EmptyMap, EmptyMap).labels
  /\ <<".","a">> \notin DOMAIN compile(statements, EmptyMap, EmptyMap).constants
  /\ LastIs("Jmp")
  /\ LastInstr.x = operands.id_F
  /\ last.res = "ok"
  /\ pc = labels[<<"F">>]
  /\ stack = << Number(7) >>
(***************************************************************************)
(* The i64 operators at full width.  Here an i64 is the four 16-bit limbs  *)
(* of its two's-complement bit pattern, least significant limb first, and  *)
(* a Number holds these limbs in its field n.                              *)
(***************************************************************************)
\* An i64 as an i128: four more limbs that repeat the sign bit.
sign_extend(x) ==
  IF x[4] >= 32768 THEN x \o << 65535, 65535, 65535, 65535 >> ELSE x \o << 0, 0, 0, 0 >>

\* x + y + c on i128 bit patterns, c being 0 or 1: limb i takes the carry of
\* the limbs below it, and the carry out of the top limb is dropped.
wide_add(x, y, c) ==
  LET carry(i) ==
        \E j \in 0..(i - 1) :
          /\ IF j = 0 THEN c = 1 ELSE x[j] + y[j] >= 65536
          /\ \A k \in (j + 1)..(i - 1) : x[k] + y[k] = 65535
      limb(i) == (x[i] + y[i] + (IF carry(i) THEN 1 ELSE 0)) % 65536
  IN << limb(1), limb(2), limb(3), limb(4), limb(5), limb(6), limb(7), limb(8) >>

\* x shifted left by k bits, as an i128 bit pattern.
wide_shl(x, k) ==
  LET q == k \div 16
      r == k % 16
      limb(i) ==
        (IF i - q < 1 THEN 0 ELSE (x[i - q] * 2^r) % 65536)
        + (IF i - q < 2 THEN 0 ELSE x[i - q - 1] \div 2^(16 - r))
  IN << limb(1), limb(2), limb(3), limb(4), limb(5), limb(6), limb(7), limb(8) >>

\* x * y on i128 bit patterns: the sum of x shifted left by k, over the bits
\* k of y from lo to hi that are set.
RECURSIVE wide_mul(_, _, _, _)
wide_mul(x, y, lo, hi) ==
  IF lo = hi
  THEN IF (y[(lo \div 16) + 1] \div 2^(lo % 16)) % 2 = 1
       THEN wide_shl(x, lo)
       ELSE << 0, 0, 0, 0, 0, 0, 0, 0 >>
  ELSE wide_add(wide_mul(x, y, lo, (lo + hi) \div 2),
                wide_mul(x, y, ((lo + hi) \div 2) + 1, hi), 0)

\* The operators `a + b`, `a - b` and `a * b` on i64 in Value::add, sub and
\* mul.  exact is the mathematical result as an i128 (a - b is a + ~b + 1).
\* A result within i64 is returned.  For a result beyond i64 the build
\* decides: with overflow checks (the dev profile) the thread panics, without
\* them (the release profile) the low 64 bits are returned.
i64_operator(op, a, b) ==
  LET exact ==
        CASE op = "add" -> wide_add(sign_extend(a), sign_extend(b), 0)
          [] op = "sub" ->
               wide_add(sign_extend(a),
                        IF b[4] >= 32768
                        THEN << 65535 - b[1], 65535 - b[2], 65535 - b[3], 65535 - b[4],
                                0, 0, 0, 0 >>
                        ELSE << 65535 - b[1], 65535 - b[2], 65535 - b[3], 65535 - b[4],
                                65535, 65535, 65535, 65535 >>,
                        1)
          [] op = "mul" -> wide_mul(sign_extend(a), sign_extend(b), 0, 127)
  IN { [panic |-> FALSE, n |-> SubSeq(exact, 1, 4)] } \cup
     IF sign_extend(SubSeq(exact, 1, 4)) = exact
     THEN {}
     ELSE { [panic |-> TRUE, n |-> << 0, 0, 0, 0 >>] }

\* An interpreter whose registers r0 and r1 hold two i64 at full width, each
\* one of i64::MIN, -1, 0, 1, 2, 2^32 and i64::MAX, before its first step.
ArithInit ==
  /\ \E a, b \in { << 0, 0, 0, 32768 >>, << 65535, 65535, 65535, 65535 >>, << 0, 0, 0, 0 >>,
                   << 1, 0, 0, 0 >>, << 2, 0, 0, 0 >>, << 0, 0, 1, 0 >>,
                   << 65535, 65535, 65535, 32767 >> } :
       registers = [r \in REGISTERS |->
                      IF r = <<"r","0">> THEN Number(a)
                      ELSE IF r = <<"r","1">> THEN Number(b)
                      ELSE Number(<< 0, 0, 0, 0 >>)]
  /\ memory = NewMachine.memory
  /\ stack = NewMachine.stack
  /\ call_stack = NewMachine.call_stack
  /\ labels = EmptyMap
  /\ constants = EmptyMap
  /\ statements = <<>>
  /\ pc = NewMachine.pc
  /\ running = NewMachine.running
  /\ parses = 0
  /\ runpc = "idle"
  /\ run_steps = 0
  /\ last = [res |-> "none", err |-> "", by |-> "none", pre |-> NewMachine]
  /\ prev = last

\* execute_add, execute_sub and execute_mul on the Registers r0 and r1, whose
\* result goes to the accumulator, and execute_inc and execute_dec on r0,
\* which add and subtract Number(1) and write r0.  A panic of the operator
\* unwinds the thread that called step(): nothing is written.
ArithStep ==
  /\ runpc = "idle"
  /\ last.res = "none"
  /\ \E i \in { [by |-> "Add", op |-> "add", dest |-> ACC],
                [by |-> "Sub", op |-> "sub", dest |-> ACC],
                [by |-> "Mul", op |-> "mul", dest |-> ACC],
                [by |-> "Inc", op |-> "add", dest |-> <<"r","0">>],
                [by |-> "Dec", op |-> "sub", dest |-> <<"r","0">>] } :
       \E o \in i64_operator(i.op, registers[<<"r","0">>].n,
                             IF i.dest = ACC THEN registers[<<"r","1">>].n ELSE << 1, 0, 0, 0 >>) :
         /\ registers' = IF o.panic THEN registers
                         ELSE [registers EXCEPT ![i.dest] = Number(o.n)]
         /\ runpc' = IF o.panic THEN "panicked" ELSE "idle"
         /\ last' = [res |-> IF o.panic THEN "panic" ELSE "ok", err |-> "", by |-> i.by,
                     pre |-> NewMachine]
  /\ prev' = last
  /\ UNCHANGED << memory, stack, call_stack, labels, constants, statements, pc, running,
                  parses, run_steps >>

\* One numeric instruction executed on two i64 operands.
ArithSpec == ArithInit /\ [][ArithStep]_vars

(***************************************************************************)
(* C40: the numeric operators on the whole i64 range.                      *)
(***************************************************************************)
\* C40: for every pair of Number operands, Add, Sub, Mul, Inc and Dec finish
\* the step with a Number within i64 or with a failure returned to the
\* caller; the interpreter is never aborted because the mathematical result
\* is beyond i64.
C40_NumericOperatorsTotal ==
  last.by \in {"Add", "Sub", "Mul", "Inc", "Dec"} =>
    /\ runpc # "panicked"
    /\ last.res \in {"ok", "err"}
    /\ last.res = "ok" =>
          \A r \in REGISTERS :
            /\ Len(registers[r].n) = 4
            /\ \A k \in 1..4 : registers[r].n[k] \in 0..65535

\* Add of i64::MAX and 1 panicked.
C40_AddOverflowPanicked ==
  /\ last.by = "Add"
  /\ last.res = "panic"
  /\ runpc = "panicked"
  /\ registers[<<"r","0">>].n = << 65535, 65535, 65535, 32767 >>
  /\ registers[<<"r","1">>].n = << 1, 0, 0, 0 >>

====
